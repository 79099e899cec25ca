----------------------------- MODULE TonNodeProofs -----------------------------
(***************************************************************************)
(* Theorems about TonNode, for prefixes of any width, any accounts, splits, *)
(* merges, transactions, crashes, waiters and observers.                   *)
(***************************************************************************)
EXTENDS TonNode, FiniteSetTheorems, WellFoundedInduction, TLAPS

-----------------------------------------------------------------------------
(* Arithmetic of prefixes                                                    *)

LEMMA Least ==
  ASSUME NEW T \in SUBSET Nat, T # {}
  PROVE  \E n \in T : \A m \in T : n <= m
<1>1. IsWellFoundedOn(OpToRel(<, Nat), Nat)
  BY NatLessThanWellFounded
<1>2. PICK n \in T : \A m \in T : ~ (<<m, n>> \in OpToRel(<, Nat))
  BY <1>1, WFMin
<1>3. ASSUME NEW m \in T PROVE n <= m
  <2>1. ~(m < n)
    BY <1>2 DEF OpToRel
  <2> QED
    BY <2>1
<1> QED
  BY <1>3

LEMMA Division ==
  ASSUME NEW d \in Nat \ {0}, NEW q \in Nat, NEW r \in 0 .. d - 1, NEW n, n = d * q + r
  PROVE  n \div d = q /\ n % d = r
  OBVIOUS

LEMMA Quotient ==
  ASSUME NEW n \in Nat, NEW d \in Nat \ {0}
  PROVE  n \div d \in Nat /\ n % d \in 0 .. d - 1 /\ n = d * (n \div d) + (n % d)
  OBVIOUS

\* Which numbers have the quotient q.
LEMMA Slice ==
  ASSUME NEW n \in Nat, NEW d \in Nat \ {0}, NEW q \in Nat
  PROVE  n \div d = q <=> d * q <= n /\ n <= d * q + d - 1
<1>1. n \div d \in Nat /\ n % d \in 0 .. d - 1 /\ n = d * (n \div d) + (n % d)
  BY Quotient
<1>2. ASSUME d * q <= n, n <= d * q + d - 1 PROVE n \div d = q
  <2>1. n - d * q \in 0 .. d - 1 /\ n = d * q + (n - d * q)
    BY <1>2
  <2> QED
    BY <2>1, Division
<1> QED
  BY <1>1, <1>2

\* A power of two but 1 is twice another.
LEMMA PowerHalf ==
  ASSUME Full \in Nat, NEW b \in Powers, b # 1
  PROVE  \E h \in Powers : b = 2 * h /\ h < b
<1>1. /\ b \in 2 .. Full /\ b \in 2 .. b
      /\ \A d \in 2 .. b : b % d = 0 => d % 2 = 0
  BY DEF Powers
<1>2. b % b = 0
  BY <1>1
<1>3. b % 2 = 0
  BY <1>1, <1>2
<1> DEFINE h == b \div 2
<1>4. h \in 1 .. Full /\ b = 2 * h /\ h < b
  BY <1>1, <1>3
<1>5. ASSUME NEW d \in 2 .. h, h % d = 0 PROVE d % 2 = 0
  <2>1. h = d * (h \div d) /\ h \div d \in Nat
    BY <1>4, <1>5
  <2>2. b = d * (2 * (h \div d)) + 0
    BY <1>4, <2>1
  <2>3. b % d = 0
    BY <2>1, <2>2, Division
  <2>4. d \in 2 .. b
    BY <1>4
  <2> QED
    BY <1>1, <2>3, <2>4
<1> QED
  BY <1>4, <1>5 DEF Powers

\* A smaller power of two divides a greater one an even number of times.
LEMMA PowersDivide ==
  ASSUME Full \in Nat, NEW b \in Powers, NEW c \in Powers, b < c
  PROVE  \E k \in Nat : c = (2 * b) * k
<1> DEFINE Bad == {x \in Powers : \E y \in Powers : y < x /\ ~ \E k \in Nat : x = (2 * y) * k}
<1>1. Powers \subseteq Nat \ {0}
  BY DEF Powers
<1>2. CASE Bad = {}
  BY <1>2
<1>3. CASE Bad # {}
  <2>1. PICK x \in Bad : \A y \in Bad : x <= y
    <3>1. Bad \in SUBSET Nat
      BY <1>1
    <3> HIDE DEF Bad
    <3> QED
      BY <1>3, <3>1, Least
  <2>2. PICK y \in Powers : y < x /\ ~ \E k \in Nat : x = (2 * y) * k
    OBVIOUS
  <2>3. x \in Powers /\ x # 1
    BY <1>1, <2>2
  <2>4. PICK h \in Powers : x = 2 * h /\ h < x
    BY <2>3, PowerHalf
  <2>5. CASE y = 1
    <3>1. x = (2 * y) * h /\ h \in Nat
      BY <1>1, <2>4, <2>5
    <3> QED
      BY <2>2, <3>1
  <2>6. CASE y # 1
    <3>1. PICK g \in Powers : y = 2 * g /\ g < y
      BY <2>6, PowerHalf
    <3>2. g < h
      BY <1>1, <2>2, <2>4, <3>1
    <3>3. h \notin Bad
      BY <1>1, <2>1, <2>4
    <3>4. PICK k \in Nat : h = (2 * g) * k
      BY <3>2, <3>3
    <3>5. x = (2 * y) * k
      BY <1>1, <2>4, <3>1, <3>4
    <3> QED
      BY <2>2, <3>5
  <2> QED
    BY <2>5, <2>6
<1> QED
  BY <1>2, <1>3

-----------------------------------------------------------------------------
(* Shards                                                                    *)

\* s is the odd multiple 2k + 1 of the tag b.
Tagged(s, b, k) == s = (2 * b) * k + b

LEMMA TaggedIs ==
  ASSUME NEW s \in Nat, NEW b \in Nat \ {0}
  PROVE  s % b = 0 /\ (s \div b) % 2 = 1 <=> \E k \in Nat : Tagged(s, b, k)
<1>1. ASSUME s % b = 0, (s \div b) % 2 = 1 PROVE \E k \in Nat : Tagged(s, b, k)
  <2> DEFINE m == s \div b
             k == m \div 2
  <2>1. m \in Nat /\ s = b * m
    BY <1>1, Quotient
  <2>2. k \in Nat /\ m = 2 * k + 1
    BY <1>1, <2>1
  <2>3. s = b * (2 * k + 1)
    BY <2>1, <2>2
  <2> HIDE DEF k
  <2>4. b * (2 * k + 1) = (2 * b) * k + b
    BY <2>2
  <2> QED
    BY <2>2, <2>3, <2>4 DEF Tagged
<1>2. ASSUME NEW k \in Nat, Tagged(s, b, k) PROVE s % b = 0 /\ (s \div b) % 2 = 1
  <2>1. s = b * (2 * k + 1) + 0 /\ 2 * k + 1 \in Nat
    BY <1>2 DEF Tagged
  <2>2. s \div b = 2 * k + 1 /\ s % b = 0
    BY <2>1, Division
  <2> QED
    BY <2>2
<1> QED
  BY <1>1, <1>2

\* A prefix has one tag.
LEMMA OneTag ==
  ASSUME Full \in Nat, NEW s \in Nat, NEW b \in Powers, NEW c \in Powers,
         NEW k \in Nat, NEW m \in Nat, Tagged(s, b, k), Tagged(s, c, m)
  PROVE  b = c
<1>1. Powers \subseteq Nat \ {0}
  BY DEF Powers
<1>2. ASSUME NEW x \in Powers, NEW y \in Powers, NEW i \in Nat, NEW j \in Nat,
             Tagged(s, x, i), Tagged(s, y, j), x < y
      PROVE  FALSE
  <2>1. PICK n \in Nat : y = (2 * x) * n
    BY <1>2, PowersDivide
  <2>2. s % (2 * x) = x
    <3>1. 2 * x \in Nat \ {0} /\ x \in 0 .. 2 * x - 1 /\ s = (2 * x) * i + x
      BY <1>1, <1>2 DEF Tagged
    <3> QED
      BY <3>1, Division
  <2>3. s % (2 * x) = 0
    <3>1. s = ((2 * x) * n) * (2 * j + 1)
      <4>1. y \in Nat /\ s = (2 * y) * j + y
        BY <1>1, <1>2 DEF Tagged
      <4>2. s = y * (2 * j + 1)
        BY <4>1
      <4> QED
        BY <2>1, <4>2
    <3>2. ((2 * x) * n) * (2 * j + 1) = (2 * x) * (n * (2 * j + 1)) /\ n * (2 * j + 1) \in Nat
      BY <1>1, <2>1
    <3>3. s = (2 * x) * (n * (2 * j + 1)) + 0
      BY <3>1, <3>2
    <3>4. ASSUME NEW d \in Nat \ {0}, NEW q \in Nat, s = d * q + 0 PROVE s % d = 0
      <4>1. 0 \in 0 .. d - 1
        OBVIOUS
      <4> QED
        BY <3>4, <4>1, Division
    <3>5. 2 * x \in Nat \ {0}
      BY <1>1
    <3> QED
      BY <3>2, <3>3, <3>4, <3>5
  <2> QED
    BY <1>1, <2>2, <2>3
<1> QED
  BY <1>1, <1>2

LEMMA LowerIs ==
  ASSUME Full \in Nat, NEW s \in Nat, NEW b \in Powers, NEW k \in Nat, Tagged(s, b, k)
  PROVE  Lower(s) = b
<1>1. Powers \subseteq Nat \ {0}
  BY DEF Powers
<1>2. s % b = 0 /\ (s \div b) % 2 = 1
  BY <1>1, TaggedIs
<1>3. Lower(s) \in Powers /\ s % Lower(s) = 0 /\ (s \div Lower(s)) % 2 = 1
  BY <1>2 DEF Lower
<1>4. PICK m \in Nat : Tagged(s, Lower(s), m)
  BY <1>1, <1>3, TaggedIs
<1> QED
  BY <1>3, <1>4, OneTag

\* A shard's interval lies within the prefixes.
LEMMA IdentShape ==
  ASSUME Full \in Powers, Full \in Nat, NEW s \in Idents
  PROVE  /\ s \in Nat /\ Lower(s) \in Powers /\ Lower(s) \in Nat \ {0}
         /\ \E k \in Nat : Tagged(s, Lower(s), k)
         /\ Lower(s) <= s /\ s + Lower(s) <= 2 * Full
<1>1. Powers \subseteq Nat \ {0}
  BY DEF Powers
<1>2. s \in Nat /\ s < 2 * Full
  BY DEF Idents, Points
<1>3. PICK b \in Powers : s % b = 0 /\ (s \div b) % 2 = 1
  BY DEF Idents
<1>4. b \in Nat \ {0}
  BY <1>1
<1>5. PICK k \in Nat : Tagged(s, b, k)
  BY <1>2, <1>3, <1>4, TaggedIs
<1>6. Lower(s) = b
  BY <1>2, <1>5, LowerIs
<1>7. \E m \in Nat : 2 * Full = (2 * b) * m
  <2>1. CASE b = Full
    BY <1>4, <2>1
  <2>2. CASE b # Full
    <3>1. b < Full
      BY <2>2 DEF Powers
    <3>2. PICK m \in Nat : Full = (2 * b) * m
      BY <3>1, PowersDivide
    <3>3. 2 * Full = (2 * b) * (2 * m) /\ 2 * m \in Nat
      BY <1>4, <3>2
    <3> QED
      BY <3>3
  <2> QED
    BY <2>1, <2>2
<1>8. PICK m \in Nat : 2 * Full = (2 * b) * m
  BY <1>7
<1>9. (2 * b) * k + b < (2 * b) * m
  BY <1>2, <1>5, <1>8 DEF Tagged
<1>10. k < m
  <2>1. ASSUME m <= k PROVE FALSE
    <3>1. (2 * b) * k = (2 * b) * m + (2 * b) * (k - m) /\ (2 * b) * (k - m) >= 0
      BY <1>4, <2>1
    <3> QED
      BY <1>4, <1>9, <3>1
  <2> QED
    BY <2>1
<1>11. (2 * b) * k + 2 * b <= (2 * b) * m
  <2>1. (2 * b) * m = (2 * b) * k + 2 * b + (2 * b) * (m - k - 1) /\ (2 * b) * (m - k - 1) >= 0
    BY <1>4, <1>10
  <2> QED
    BY <1>4, <2>1
<1>12. b <= s /\ s + b <= 2 * Full
  <2>1. s = (2 * b) * k + b /\ (2 * b) * k \in Nat
    BY <1>4, <1>5 DEF Tagged
  <2> QED
    BY <1>4, <1>8, <1>11, <2>1
<1> QED
  BY <1>2, <1>4, <1>5, <1>6, <1>12

\* contains_account, the range of keys and the mask pick the same accounts.
LEMMA ContainsIs ==
  ASSUME Full \in Powers, Full \in Nat, NEW s \in Idents, NEW a \in Points
  PROVE  (Contains(s, a) <=> InRange(s, a)) /\ (Masked(s, a) <=> InRange(s, a))
<1> DEFINE b == Lower(s)
<1>1. s \in Nat /\ b \in Nat \ {0} /\ b <= s /\ \E k \in Nat : Tagged(s, b, k)
  BY IdentShape
<1>2. PICK k \in Nat : Tagged(s, b, k)
  BY <1>1
<1> HIDE DEF b
<1>3. (2 * b) * k \in Nat /\ s = (2 * b) * k + b /\ 2 * b \in Nat \ {0} /\ a \in Nat
  BY <1>1, <1>2 DEF Tagged, Points
<1>4. s \div (2 * b) = k
  <2>1. b \in 0 .. 2 * b - 1
    BY <1>1
  <2> QED
    BY <1>3, <2>1, Division
<1>5. (s - b) \div (2 * b) = k
  <2>1. s - b = (2 * b) * k + 0 /\ 0 \in 0 .. 2 * b - 1
    BY <1>1, <1>3
  <2> QED
    BY <1>3, <2>1, Division
<1>6. a \div (2 * b) = k <=> s - b <= a /\ a <= s + b - 1
  <2>1. a \div (2 * b) = k <=> (2 * b) * k <= a /\ a <= (2 * b) * k + 2 * b - 1
    BY <1>3, Slice
  <2> QED
    BY <1>1, <1>3, <2>1
<1>7. IsFull(s) => InRange(s, a)
  <2>1. ASSUME s = Full PROVE b = Full
    <3>1. Full = (2 * Full) * 0 + Full
      OBVIOUS
    <3>2. Lower(Full) = Full
      BY <3>1, LowerIs DEF Tagged
    <3> QED
      BY <2>1, <3>2 DEF b
  <2> QED
    BY <2>1 DEF IsFull, InRange, Points, b
<1> QED
  BY <1>4, <1>5, <1>6, <1>7 DEF Contains, Masked, InRange, b

\* A prefix is one of its shard's addresses.
LEMMA ContainsSelf ==
  ASSUME Full \in Powers, Full \in Nat, NEW s \in Idents
  PROVE  s \in Points /\ Contains(s, s)
<1>1. s \in Points
  BY DEF Idents
<1>2. s \in Nat /\ Lower(s) \in Nat \ {0} /\ Lower(s) <= s
  BY IdentShape
<1>3. InRange(s, s)
  BY <1>2 DEF InRange
<1> QED
  BY <1>1, <1>3, ContainsIs

\* A split halves the shard.
LEMMA SplitShape ==
  ASSUME Full \in Powers, Full \in Nat, NEW s \in Idents, CanSplit(s)
  PROVE  /\ \A c \in Split(s) : c \in Idents /\ Lower(c) < Lower(s) /\ c # s
         /\ \A a \in Points : Contains(s, a) <=> \E c \in Split(s) : Contains(c, a)
         /\ \A c, d \in Split(s) : \A a \in Points : Contains(c, a) /\ Contains(d, a) => c = d
         /\ ~ \E c : Split(s) = {c}
<1> DEFINE b == Lower(s)
<1>1. /\ s \in Nat /\ b \in Powers /\ b \in Nat \ {0} /\ b <= s /\ s + b <= 2 * Full
      /\ \E k \in Nat : Tagged(s, b, k)
  BY IdentShape
<1>2. b # 1
  BY <1>1 DEF CanSplit
<1>3. PICK h \in Powers : b = 2 * h /\ h < b
  BY <1>1, <1>2, PowerHalf
<1>4. PICK k \in Nat : Tagged(s, b, k)
  BY <1>1
<1>5. h \in Nat \ {0}
  BY DEF Powers
<1>6. Split(s) = {s - h, s + h}
  <2>1. Lower(s) \div 2 = h
    BY <1>3, <1>5
  <2> QED
    BY <2>1 DEF Split
<1> HIDE DEF b
<1>7. s = (2 * b) * k + b /\ (2 * b) * k = (2 * h) * (2 * k)
  BY <1>3, <1>4, <1>5 DEF Tagged
<1>8. s - h = (2 * h) * (2 * k) + h /\ s + h = (2 * h) * (2 * k + 1) + h
  <2>1. (2 * h) * (2 * k + 1) = (2 * h) * (2 * k) + 2 * h
    BY <1>5
  <2>2. (2 * h) * (2 * k) \in Nat
    BY <1>5
  <2> QED
    BY <1>3, <1>5, <1>7, <2>1, <2>2
<1>9. ASSUME NEW c \in Split(s) PROVE c \in Idents /\ Lower(c) = h
  <2>1. c \in Nat /\ c > 0 /\ c < 2 * Full
    BY <1>1, <1>3, <1>5, <1>6 DEF b
  <2>2. \E m \in Nat : Tagged(c, h, m)
    <3>1. 2 * k \in Nat /\ 2 * k + 1 \in Nat
      OBVIOUS
    <3> QED
      BY <1>6, <1>8, <3>1 DEF Tagged
  <2>3. Lower(c) = h /\ c % h = 0 /\ (c \div h) % 2 = 1
    BY <1>5, <2>1, <2>2, LowerIs, TaggedIs
  <2> QED
    BY <2>1, <2>3 DEF Idents, Points
<1>10. ASSUME NEW a \in Points
       PROVE  /\ Contains(s, a) <=> s - b <= a /\ a <= s + b - 1
              /\ \A c \in Split(s) : Contains(c, a) <=> c - h <= a /\ a <= c + h - 1
  <2>1. Contains(s, a) <=> InRange(s, a)
    BY ContainsIs
  <2>2. ASSUME NEW c \in Split(s) PROVE Contains(c, a) <=> c - h <= a /\ a <= c + h - 1
    BY <1>9, ContainsIs DEF InRange
  <2> QED
    BY <2>1, <2>2 DEF InRange, b
<1>11. \A a \in Points : a \in Nat
  BY DEF Points
<1>12. b \in Nat /\ s \in Nat /\ h < b /\ b = 2 * h
  BY <1>1, <1>3 DEF b
<1>13. \A c \in Split(s) : c \in Idents /\ Lower(c) < Lower(s) /\ c # s
  BY <1>5, <1>6, <1>9, <1>12 DEF b
<1> DEFINE l == s - h
           r == s + h
<1>14. Split(s) = {l, r} /\ l \in Nat /\ r \in Nat /\ l = s - h /\ r = s + h
  BY <1>1, <1>5, <1>6, <1>12 DEF b
<1> HIDE DEF l, r
<1>15. ASSUME NEW a \in Points
       PROVE  /\ Contains(l, a) <=> l - h <= a /\ a <= l + h - 1
              /\ Contains(r, a) <=> r - h <= a /\ a <= r + h - 1
  BY <1>10, <1>14
<1>16. \A a \in Points : Contains(s, a) <=> Contains(l, a) \/ Contains(r, a)
  BY <1>5, <1>10, <1>11, <1>12, <1>14, <1>15
<1>17. \A a \in Points : ~(Contains(l, a) /\ Contains(r, a))
  BY <1>5, <1>10, <1>11, <1>12, <1>14, <1>15
<1>18. l # r
  BY <1>5, <1>12, <1>14
<1>19. \A a \in Points : Contains(s, a) <=> \E c \in Split(s) : Contains(c, a)
  BY <1>14, <1>16
<1>20. \A c, d \in Split(s) : \A a \in Points : Contains(c, a) /\ Contains(d, a) => c = d
  BY <1>14, <1>17
<1> QED
  BY <1>13, <1>14, <1>18, <1>19, <1>20

\* A shard of one address has no halves.
LEMMA NoSplit ==
  ASSUME Full \in Powers, Full \in Nat, NEW s \in Idents, ~CanSplit(s)
  PROVE  Split(s) = {s}
<1>1. s \in Nat /\ Lower(s) = 1
  BY IdentShape DEF CanSplit
<1>2. s - (1 \div 2) = s /\ s + (1 \div 2) = s
  BY <1>1
<1> QED
  BY <1>1, <1>2 DEF Split

\* Each address is in one of the shards.
Covers(S) ==
  /\ S \subseteq Idents
  /\ \A a \in Points : \E s \in S : Contains(s, a)
  /\ \A s, t \in S : \A a \in Points : Contains(s, a) /\ Contains(t, a) => s = t

\* What becomes of the shards from one round to the next.
Moved(S, T) ==
  \/ T = S
  \/ \E p \in S : CanSplit(p) /\ T = (S \ {p}) \cup Split(p)
  \/ \E s \in Idents : CanSplit(s) /\ Split(s) \subseteq S /\ T = (S \ Split(s)) \cup {s}

LEMMA FullCovers ==
  ASSUME Full \in Powers, Full \in Nat \ {0}
  PROVE  Covers({Full}) /\ Covers(Split(Full))
<1>1. Full = (2 * Full) * 0 + Full
  OBVIOUS
<1>2. Lower(Full) = Full
  BY <1>1, LowerIs DEF Tagged
<1>3. Full \in Idents
  <2>1. Full % Full = 0 /\ (Full \div Full) % 2 = 1
    BY <1>1, TaggedIs DEF Tagged
  <2> QED
    BY <2>1 DEF Idents, Points
<1>4. \A a \in Points : Contains(Full, a)
  BY DEF Contains, IsFull
<1>5. Covers({Full})
  BY <1>3, <1>4 DEF Covers
<1>6. CASE Full = 1
  <2>1. Split(Full) = {Full}
    <3>1. Full - (1 \div 2) = Full /\ Full + (1 \div 2) = Full
      BY <1>6
    <3> QED
      BY <1>2, <1>6, <3>1 DEF Split
  <2> QED
    BY <1>5, <2>1
<1>7. CASE Full # 1
  <2>1. CanSplit(Full)
    BY <1>2, <1>7 DEF CanSplit
  <2> QED
    BY <1>3, <1>4, <2>1, SplitShape DEF Covers
<1> QED
  BY <1>5, <1>6, <1>7

LEMMA MovedCovers ==
  ASSUME Full \in Powers, Full \in Nat, NEW S, NEW T, Covers(S), Moved(S, T)
  PROVE  Covers(T)
<1>1. CASE T = S
  BY <1>1
<1>2. ASSUME NEW p \in S, CanSplit(p), T = (S \ {p}) \cup Split(p) PROVE Covers(T)
  <2>1. p \in Idents
    BY DEF Covers
  <2>2. /\ \A c \in Split(p) : c \in Idents
        /\ \A a \in Points : Contains(p, a) <=> \E c \in Split(p) : Contains(c, a)
        /\ \A c, d \in Split(p) : \A a \in Points : Contains(c, a) /\ Contains(d, a) => c = d
    BY <1>2, <2>1, SplitShape
  <2>3. T \subseteq Idents
    BY <1>2, <2>2 DEF Covers
  <2>4. \A a \in Points : \E t \in T : Contains(t, a)
    BY <1>2, <2>2 DEF Covers
  <2>5. ASSUME NEW t \in T, NEW u \in T, NEW a \in Points, Contains(t, a), Contains(u, a)
        PROVE  t = u
    BY <1>2, <2>2, <2>5 DEF Covers
  <2> QED
    BY <2>3, <2>4, <2>5 DEF Covers
<1>3. ASSUME NEW s \in Idents, CanSplit(s), Split(s) \subseteq S, T = (S \ Split(s)) \cup {s}
      PROVE  Covers(T)
  <2>1. \A a \in Points : Contains(s, a) <=> \E c \in Split(s) : Contains(c, a)
    BY <1>3, SplitShape
  <2>2. T \subseteq Idents
    BY <1>3 DEF Covers
  <2>3. \A a \in Points : \E t \in T : Contains(t, a)
    BY <1>3, <2>1 DEF Covers
  <2>4. ASSUME NEW t \in T, NEW u \in T, NEW a \in Points, Contains(t, a), Contains(u, a)
        PROVE  t = u
    BY <1>3, <2>1, <2>4 DEF Covers
  <2> QED
    BY <2>2, <2>3, <2>4 DEF Covers
<1> QED
  BY <1>1, <1>2, <1>3 DEF Moved

\* Prev, of the shards W of the round before.
From(W, s) ==
  IF s \in W THEN {s}
  ELSE {p \in W : s \in Split(p)} \cup {p \in W : p \in Split(s)}

\* The blocks before the first of a shard: its own; that of the shard it was split
\* from, which its sibling has, too; or those of the shards it was merged from.
FromIs(W, S) ==
  /\ Covers(S)
  /\ \A s \in S : s \in W => From(W, s) = {s}
  /\ \A s \in S \ W :
       /\ From(W, s) \subseteq W \ S
       /\ \/ \E p \in W : /\ From(W, s) = {p} /\ s \in Split(p)
                        /\ Split(p) \subseteq S \ W
                        /\ \A t \in S : p \in From(W, t) => t \in Split(p)
          \/ /\ ~ \E p : From(W, s) = {p}
             /\ \A t \in S : t # s => From(W, s) \cap From(W, t) = {}
  /\ \A s \in S : \A a \in Points :
       Contains(s, a) => \E p \in From(W, s) : Contains(p, a)
  /\ \A p \in W \ S : \E s \in S : p \in From(W, s)

LEMMA FromShape ==
  ASSUME Full \in Powers, Full \in Nat, NEW W, NEW S, Covers(W), Moved(W, S)
  PROVE  FromIs(W, S)
<1>0. Covers(S)
  BY MovedCovers
<1>1. /\ \A s \in W \cup S : s \in Idents
      /\ \A s, t \in W : \A a \in Points : Contains(s, a) /\ Contains(t, a) => s = t
      /\ \A s, t \in S : \A a \in Points : Contains(s, a) /\ Contains(t, a) => s = t
  BY <1>0 DEF Covers
<1>2. \A s \in Idents : s \in Points /\ Contains(s, s) /\ Lower(s) \in Nat
  BY ContainsSelf, IdentShape
<1>3. \A s \in S : s \in W => From(W, s) = {s}
  BY DEF From
<1>4. CASE S = W
  BY <1>0, <1>3, <1>4 DEF FromIs
<1>5. ASSUME NEW p \in W, CanSplit(p), S = (W \ {p}) \cup Split(p)
      PROVE  /\ \A s \in S \ W :
                  /\ From(W, s) = {p} /\ s \in Split(p)
                  /\ p \notin S /\ Split(p) \subseteq S \ W
                  /\ \A t \in S : p \in From(W, t) => t \in Split(p)
             /\ \A s \in S : \A a \in Points : Contains(s, a) => \E q \in From(W, s) : Contains(q, a)
             /\ \A q \in W \ S : \E s \in S : q \in From(W, s)
  <2>1. p \in Idents
    BY <1>1
  <2>2. /\ \A c \in Split(p) : c \in Idents /\ Lower(c) < Lower(p) /\ c # p
        /\ \A a \in Points : Contains(p, a) <=> \E c \in Split(p) : Contains(c, a)
        /\ ~ \E c : Split(p) = {c}
    BY <1>5, <2>1, SplitShape
  <2>3. ASSUME NEW c \in Split(p) PROVE c \notin W /\ Contains(p, c) /\ c \in Points
    <3>1. c \in Points /\ Contains(c, c) /\ Contains(p, c) /\ c # p
      BY <1>2, <2>2
    <3> QED
      BY <1>1, <3>1
  <2>4. p \notin S
    BY <1>5, <2>2
  <2>5. ASSUME NEW c \in Split(p) PROVE From(W, c) = {p}
    <3>1. From(W, c) = {q \in W : c \in Split(q)} \cup {q \in W : q \in Split(c)}
      BY <2>3 DEF From
    <3>2. ASSUME NEW q \in W, c \in Split(q) PROVE q = p
      <4>1. CASE CanSplit(q)
        <5>1. Contains(q, c)
          BY <1>1, <1>2, <2>3, <3>2, <4>1, SplitShape
        <5> QED
          BY <1>1, <2>3, <5>1
      <4>2. CASE ~CanSplit(q)
        <5>1. Split(q) = {q}
          BY <1>1, <4>2, NoSplit
        <5> QED
          BY <2>3, <3>2, <5>1
      <4> QED
        BY <4>1, <4>2
    <3>3. ASSUME NEW q \in W, q \in Split(c) PROVE FALSE
      <4>1. c \in Idents /\ Lower(c) \in Nat \ {0}
        BY <2>2, IdentShape
      <4>2. CASE CanSplit(c)
        <5>1. q \in Idents /\ Lower(q) < Lower(c) /\ q \in Points /\ Contains(q, q)
          BY <1>1, <1>2, <3>3, <4>1, <4>2, SplitShape
        <5>2. Contains(c, q)
          BY <3>3, <4>1, <4>2, <5>1, SplitShape
        <5>3. Contains(p, q)
          BY <2>2, <5>1, <5>2
        <5>4. q = p
          BY <1>1, <5>1, <5>3
        <5>5. Lower(c) < Lower(p) /\ Lower(c) \in Nat /\ Lower(p) \in Nat
          BY <1>2, <2>1, <2>2, <4>1
        <5> QED
          BY <5>1, <5>4, <5>5
      <4>3. CASE ~CanSplit(c)
        <5>1. Split(c) = {c}
          BY <4>1, <4>3, NoSplit
        <5> QED
          BY <2>3, <3>3, <5>1
      <4> QED
        BY <4>2, <4>3
    <3> QED
      BY <3>1, <3>2, <3>3
  <2>6. \A s \in S \ W : s \in Split(p)
    BY <1>5
  <2>7. Split(p) \subseteq S \ W
    BY <1>5, <2>3
  <2>8. ASSUME NEW t \in S, p \in From(W, t) PROVE t \in Split(p)
    <3>1. CASE t \in W
      BY <1>3, <2>4, <2>8, <3>1
    <3>2. CASE t \notin W
      BY <2>6, <3>2
    <3> QED
      BY <3>1, <3>2
  <2>9. \A s \in S : \A a \in Points : Contains(s, a) => \E q \in From(W, s) : Contains(q, a)
    <3>1. \A s \in S : s \in W \/ s \in Split(p)
      BY <2>6
    <3> QED
      BY <1>3, <2>2, <2>5, <3>1
  <2>10. \A q \in W \ S : \E s \in S : q \in From(W, s)
    <3>1. \A q \in W \ S : q = p
      BY <1>5
    <3>2. PICK c \in Split(p) : TRUE
      BY <2>2, <2>1, <1>2
    <3> QED
      BY <2>5, <2>7, <3>1, <3>2
  <2> QED
    BY <2>4, <2>5, <2>6, <2>7, <2>8, <2>9, <2>10
<1>6. ASSUME NEW m \in Idents, CanSplit(m), Split(m) \subseteq W, S = (W \ Split(m)) \cup {m}
      PROVE  /\ \A s \in S \ W :
                  /\ s = m /\ From(W, s) = Split(m) /\ Split(m) \cap S = {}
                  /\ ~ \E p : From(W, s) = {p}
                  /\ \A t \in S : t # s => From(W, s) \cap From(W, t) = {}
             /\ \A s \in S : \A a \in Points : Contains(s, a) => \E q \in From(W, s) : Contains(q, a)
             /\ \A q \in W \ S : \E s \in S : q \in From(W, s)
  <2>1. /\ \A c \in Split(m) : c \in Idents /\ Lower(c) < Lower(m) /\ c # m
        /\ \A a \in Points : Contains(m, a) <=> \E c \in Split(m) : Contains(c, a)
        /\ ~ \E c : Split(m) = {c}
    BY <1>6, SplitShape
  <2>2. PICK c \in Split(m) : c \in Points /\ Contains(c, c) /\ Contains(m, c)
    <3>1. \E c \in Split(m) : TRUE
      BY <1>2, <1>6, <2>1
    <3> QED
      BY <1>2, <2>1, <3>1
  <2>3. m \notin W
    BY <1>1, <1>6, <2>1, <2>2
  <2>4. Split(m) \cap S = {}
    BY <1>6, <2>1
  <2>5. From(W, m) = Split(m)
    <3>1. From(W, m) = {q \in W : m \in Split(q)} \cup {q \in W : q \in Split(m)}
      BY <2>3 DEF From
    <3>2. ASSUME NEW q \in W, m \in Split(q) PROVE FALSE
      <4>1. q \in Idents /\ Lower(q) \in Nat \ {0}
        BY <1>1, IdentShape
      <4>2. CASE CanSplit(q)
        <5>1. Lower(m) < Lower(q) /\ Contains(q, c)
          BY <2>2, <3>2, <4>1, <4>2, SplitShape
        <5>2. q = c
          BY <1>1, <1>6, <2>2, <5>1
        <5>3. Lower(c) < Lower(m) /\ Lower(c) \in Nat /\ Lower(m) \in Nat
          BY <1>2, <2>1
        <5> QED
          BY <5>1, <5>2, <5>3
      <4>3. CASE ~CanSplit(q)
        <5>1. Split(q) = {q}
          BY <1>1, <4>3, NoSplit
        <5> QED
          BY <2>3, <3>2, <5>1
      <4> QED
        BY <4>2, <4>3
    <3> QED
      BY <1>6, <3>1, <3>2
  <2>6. \A s \in S : s = m \/ s \in W
    BY <1>6
  <2>7. \A t \in S : t # m => From(W, m) \cap From(W, t) = {}
    BY <1>3, <2>4, <2>5, <2>6
  <2>8. \A s \in S : \A a \in Points : Contains(s, a) => \E q \in From(W, s) : Contains(q, a)
    BY <1>3, <2>1, <2>5, <2>6
  <2>9. \A q \in W \ S : q \in From(W, m) /\ m \in S
    BY <1>6, <2>5
  <2> QED
    BY <2>1, <2>3, <2>4, <2>5, <2>6, <2>7, <2>8, <2>9
<1>7. CASE \E p \in W : CanSplit(p) /\ S = (W \ {p}) \cup Split(p)
  <2>1. PICK p \in W : CanSplit(p) /\ S = (W \ {p}) \cup Split(p)
    BY <1>7
  <2>2. ASSUME NEW s \in S \ W
        PROVE  /\ From(W, s) \subseteq W \ S
               /\ /\ From(W, s) = {p} /\ s \in Split(p)
                  /\ Split(p) \subseteq S \ W
                  /\ \A t \in S : p \in From(W, t) => t \in Split(p)
    BY <1>5, <2>1
  <2> QED
    BY <1>0, <1>3, <1>5, <2>1, <2>2 DEF FromIs
<1>8. CASE \E m \in Idents : CanSplit(m) /\ Split(m) \subseteq W /\ S = (W \ Split(m)) \cup {m}
  <2>1. PICK m \in Idents : CanSplit(m) /\ Split(m) \subseteq W /\ S = (W \ Split(m)) \cup {m}
    BY <1>8
  <2>2. ASSUME NEW s \in S \ W
        PROVE  /\ From(W, s) \subseteq W \ S
               /\ ~ \E p : From(W, s) = {p}
               /\ \A t \in S : t # s => From(W, s) \cap From(W, t) = {}
    BY <1>6, <2>1
  <2> QED
    BY <1>0, <1>3, <1>6, <2>1, <2>2 DEF FromIs
<1> QED
  BY <1>4, <1>7, <1>8 DEF Moved

\* The one shard of a set that covers the addresses which holds a.
LEMMA HolderIs ==
  ASSUME NEW S, Covers(S), NEW a \in Points
  PROVE  /\ (CHOOSE s \in S : Contains(s, a)) \in S
         /\ Contains(CHOOSE s \in S : Contains(s, a), a)
         /\ \A s \in S : Contains(s, a) => s = (CHOOSE t \in S : Contains(t, a))
<1>1. \E s \in S : Contains(s, a)
  BY DEF Covers
<1>2. \A s, t \in S : Contains(s, a) /\ Contains(t, a) => s = t
  BY DEF Covers
<1> QED
  BY <1>1, <1>2

-----------------------------------------------------------------------------
(* Types                                                                     *)

LEMMA ConstantFacts ==
  /\ Full \in Powers /\ Full \in Nat \ {0}
  /\ Accounts \subseteq Points /\ IsFiniteSet(Accounts)
  /\ "none" \in NoCode /\ Codes \cap NoCode = {}
  /\ Waiters \cap Observers = {}
  /\ \A x \in Waiters \cup Observers : Target[x] \in Accounts
  /\ Worlds \subseteq World
<1>1. /\ Full \in Powers /\ Full \in Nat \ {0} /\ Accounts \subseteq 0 .. 2 * Full - 1
      /\ "none" \in NoCode /\ Codes \cap NoCode = {}
  BY StorageAssumption DEF Points
<1>2. IsFiniteSet(0 .. 2 * Full - 1)
  <2>1. 0 \in Int /\ 2 * Full - 1 \in Int
    BY <1>1
  <2> QED
    BY <2>1, FS_Interval
<1>3. IsFiniteSet(Accounts)
  BY <1>1, <1>2, FS_Subset
<1> QED
  BY <1>1, <1>3, SubscriberAssumption, TonNodeAssumption DEF Points

LEMMA EntryType ==
  ASSUME NEW a \in Accounts, NEW body
  PROVE  Entry(a, body) \subseteq Index /\ \A p \in Entry(a, body) : p[2] = a
  BY DEF Entry, Index

LEMMA EntriesType ==
  ASSUME NEW A \in SUBSET Accounts, NEW body
  PROVE  Entries(A, body) \subseteq Index
  BY EntryType DEF Entries

LEMMA NoCache == DOMAIN <<>> = {}
  OBVIOUS

LEMMA StorageInitType == StorageInit => StorageTypeOK
<1> SUFFICES ASSUME StorageInit PROVE StorageTypeOK
  OBVIOUS
<1>1. primary \in SUBSET Index /\ secondary \in SUBSET Index
  BY EntriesType DEF StorageInit
<1>2. snapshot \in SUBSET SUBSET Index /\ reset \in Reset
  BY DEF StorageInit, NoReset, Reset
<1>3. DOMAIN cache = {}
  BY NoCache DEF StorageInit
<1> QED
  BY <1>1, <1>2, <1>3 DEF StorageTypeOK

LEMMA StorageTypes ==
  ASSUME StorageTypeOK
  PROVE  /\ \A s \in Idents : BeginReset(s) => StorageTypeOK'
         /\ DeleteKey => StorageTypeOK'
         /\ \A body : WriteState(body) => StorageTypeOK'
         /\ \A s, p : UpdateIndex(s, p) => StorageTypeOK'
         /\ \A s \in Idents : \A prev : \A state \in [Accounts -> State] :
              UpdateCache(s, prev, state) => StorageTypeOK'
         /\ UpdateSnapshot => StorageTypeOK'
         /\ StorageCrash => StorageTypeOK'
         /\ UNCHANGED storageVars => StorageTypeOK'
<1> USE DEF StorageTypeOK
<1>1. ASSUME NEW s \in Idents, BeginReset(s) PROVE StorageTypeOK'
  BY <1>1 DEF BeginReset, Reset
<1>2. ASSUME DeleteKey PROVE StorageTypeOK'
  <2>1. PICK p \in reset.keys : /\ primary' = primary \ {p}
                                /\ reset' = [reset EXCEPT !.keys = @ \ {p}]
    BY <1>2 DEF DeleteKey
  <2>2. reset' \in Reset
    BY <2>1 DEF Reset
  <2> QED
    BY <1>2, <2>1, <2>2 DEF DeleteKey
<1>3. ASSUME NEW body, WriteState(body) PROVE StorageTypeOK'
  <2>1. Entries(Within(reset.shard), body) \subseteq Index
    BY EntriesType DEF Within
  <2> QED
    BY <1>3, <2>1 DEF WriteState, NoReset, Reset
<1>4. ASSUME NEW s, NEW p, UpdateIndex(s, p) PROVE StorageTypeOK'
  <2> DEFINE New(a) == Entry(a, p[a][Len(p[a])])
             T == {a \in Within(s) : Changed(p[a]) /\ Stored(a) # New(a)}
             N == UNION {New(a) : a \in T}
  <2>1. /\ primary' = (primary \ UNION {Stored(a) : a \in T}) \cup N
        /\ secondary' = {q \in secondary : q[2] \notin T} \cup N
        /\ UNCHANGED <<snapshot, reset, cache>>
    BY <1>4 DEF UpdateIndex
  <2>2. T \subseteq Accounts
    BY DEF Within
  <2> HIDE DEF T
  <2>3. N \subseteq Index
    BY <2>2, EntryType
  <2> HIDE DEF N
  <2> QED
    BY <2>1, <2>3
<1>5. ASSUME NEW s \in Idents, NEW prev, NEW state \in [Accounts -> State],
             UpdateCache(s, prev, state)
      PROVE  StorageTypeOK'
  <2>1. PICK kept \in SUBSET (DOMAIN cache \cup {s}) :
          cache' = [t \in kept |-> IF t = s THEN [a \in Within(s) |-> state[a]] ELSE cache[t]]
    BY <1>5 DEF UpdateCache
  <2>2. \A t \in kept : t \in Idents /\ cache'[t] \in [Within(t) -> State]
    BY <2>1 DEF Within
  <2>3. DOMAIN cache' = kept
    BY <2>1
  <2> QED
    BY <1>5, <2>2, <2>3 DEF UpdateCache, Within
<1>6. ASSUME UpdateSnapshot PROVE StorageTypeOK'
  BY <1>6 DEF UpdateSnapshot, Within
<1>7. ASSUME StorageCrash PROVE StorageTypeOK'
  <2>1. DOMAIN cache' = {}
    BY <1>7, NoCache DEF StorageCrash
  <2> QED
    BY <1>7, <2>1 DEF StorageCrash, NoReset, Reset
<1>8. ASSUME UNCHANGED storageVars PROVE StorageTypeOK'
  BY <1>8 DEF storageVars, Within
<1> QED
  BY <1>1, <1>2, <1>3, <1>4, <1>5, <1>6, <1>7, <1>8

LEMMA NoSubType == NoSub \in Subscription /\ NewSub \in Subscription
<1>1. Nothing \in State
  BY ConstantFacts DEF Nothing, State, Bodies
<1> QED
  BY <1>1 DEF NoSub, NewSub, Subscription

LEMMA SubscriptionFields ==
  ASSUME NEW s \in Subscription
  PROVE  /\ s.kept \in BOOLEAN /\ s.value \in State /\ s.unseen \in BOOLEAN
         /\ s.observers \in SUBSET Observers
  BY DEF Subscription

LEMMA OpenedType ==
  ASSUME SubscriberTypeOK, NEW a \in Accounts
  PROVE  Opened(a) \in Subscription
  BY NoSubType DEF SubscriberTypeOK, Opened

LEMMA RefreshedType ==
  ASSUME SubscriberTypeOK, NEW a \in Accounts, NEW state \in State, NEW loaded \in BOOLEAN
  PROVE  /\ Refreshed(a, state, loaded) \in Subscription
         /\ [subs[a] EXCEPT !.observers = @ \cap alive] \in Subscription
         /\ Refreshed(a, state, loaded).kept = subs[a].kept
         /\ Refreshed(a, state, loaded).observers = subs[a].observers \cap alive
         /\ Refreshed(a, state, loaded).value
              = (IF Receivers(a) # {} /\ loaded THEN state ELSE subs[a].value)
         /\ Refreshed(a, state, loaded).unseen
              = (Receivers(a) # {} /\ (loaded \/ subs[a].unseen))
<1>1. subs[a] \in Subscription
  BY DEF SubscriberTypeOK
<1>2. /\ subs[a].kept \in BOOLEAN /\ subs[a].value \in State /\ subs[a].unseen \in BOOLEAN
      /\ subs[a].observers \in SUBSET Observers
  BY <1>1, SubscriptionFields
<1> DEFINE R == Receivers(a) # {}
<1>3. R \in BOOLEAN
  OBVIOUS
<1>4. Refreshed(a, state, loaded) =
        [subs[a] EXCEPT !.observers = @ \cap alive,
                        !.value = IF R /\ loaded THEN state ELSE @,
                        !.unseen = R /\ (loaded \/ @)]
  BY DEF Refreshed
<1> HIDE DEF R
<1>5. Refreshed(a, state, loaded) =
        [kept |-> subs[a].kept, value |-> IF R /\ loaded THEN state ELSE subs[a].value,
         unseen |-> R /\ (loaded \/ subs[a].unseen), observers |-> subs[a].observers \cap alive]
  BY <1>1, <1>4 DEF Subscription
<1>6. Refreshed(a, state, loaded) \in Subscription
  BY <1>2, <1>3, <1>5 DEF Subscription
<1>7. [subs[a] EXCEPT !.observers = @ \cap alive] \in Subscription
  BY <1>1, <1>2 DEF Subscription
<1> QED
  BY <1>5, <1>6, <1>7 DEF R

LEMMA SubscriberInitType == SubscriberInit => SubscriberTypeOK
<1> SUFFICES ASSUME SubscriberInit PROVE SubscriberTypeOK
  OBVIOUS
<1>1. subs \in [Accounts -> Subscription]
  BY NoSubType DEF SubscriberInit
<1>2. mode \in [Waiters -> Modes] /\ heard \in [Observers -> Nat]
  BY DEF SubscriberInit, Modes
<1> QED
  BY <1>1, <1>2 DEF SubscriberInit, SubscriberTypeOK

LEMMA HandleTypes ==
  ASSUME SubscriberTypeOK, NEW s, NEW state \in [Accounts -> State],
         NEW n \in [Accounts -> Nat], NEW broken, HandleShardBlock(s, state, n, broken)
  PROVE  SubscriberTypeOK'
<1> DEFINE Sub(a) == IF ~subs[a].kept \/ Status(a) = "Stopped" THEN NoSub
                     ELSE IF Contains(s, a) THEN Refreshed(a, state[a], a \notin broken)
                     ELSE [subs[a] EXCEPT !.observers = @ \cap alive]
<1>1. subs' = [a \in Accounts |-> Sub(a)]
  BY DEF HandleShardBlock
<1>2. ASSUME NEW a \in Accounts PROVE Sub(a) \in Subscription
  <2>1. state[a] \in State /\ (a \notin broken) \in BOOLEAN
    OBVIOUS
  <2> QED
    BY <2>1, NoSubType, RefreshedType
<1> HIDE DEF Sub
<1>3. subs' \in [Accounts -> Subscription]
  BY <1>1, <1>2
<1>4. waiter' \in [Waiters -> {"idle", "seen", "unseen"}]
  BY DEF HandleShardBlock, SubscriberTypeOK
<1>5. heard' \in [Observers -> Nat]
  <2> DEFINE H(o) == IF Contains(s, Target[o]) /\ o \in alive \cap subs'[Target[o]].observers
                     THEN heard[o] + n[Target[o]] ELSE heard[o]
  <2>1. heard' = [o \in Observers |-> H(o)]
    BY DEF HandleShardBlock
  <2>2. ASSUME NEW o \in Observers PROVE H(o) \in Nat
    <3>1. Target[o] \in Accounts
      BY ConstantFacts
    <3>2. n[Target[o]] \in Nat /\ heard[o] \in Nat
      BY <3>1 DEF SubscriberTypeOK
    <3> QED
      BY <3>2
  <2> HIDE DEF H
  <2> QED
    BY <2>1, <2>2
<1> QED
  BY <1>3, <1>4, <1>5 DEF HandleShardBlock, SubscriberTypeOK

LEMMA SubscriberTypes ==
  ASSUME SubscriberTypeOK
  PROVE  /\ \A w \in Waiters : \A m \in Modes : AskState(w, m) => SubscriberTypeOK'
         /\ \A w \in Waiters : TakeState(w) => SubscriberTypeOK'
         /\ \A o \in Observers : \A v \in Nat : Observe(o, v) => SubscriberTypeOK'
         /\ \A o \in Observers : DropObserver(o) => SubscriberTypeOK'
         /\ HandleMasterchainBlock => SubscriberTypeOK'
         /\ SubscriberCrash => SubscriberTypeOK'
         /\ UNCHANGED subscriberVars => SubscriberTypeOK'
<1>1. ASSUME NEW w \in Waiters, NEW m \in Modes, AskState(w, m) PROVE SubscriberTypeOK'
  <2>1. Target[w] \in Accounts
    BY ConstantFacts
  <2>2. Opened(Target[w]) \in Subscription
    BY <2>1, OpenedType
  <2>3. subs' = [subs EXCEPT ![Target[w]] = Opened(Target[w])]
    BY <1>1 DEF AskState
  <2>4. subs' \in [Accounts -> Subscription]
    BY <2>1, <2>2, <2>3 DEF SubscriberTypeOK
  <2>5. waiter' \in [Waiters -> {"idle", "seen", "unseen"}] /\ mode' \in [Waiters -> Modes]
    BY <1>1 DEF AskState, SubscriberTypeOK
  <2> QED
    BY <1>1, <2>4, <2>5 DEF AskState, SubscriberTypeOK
<1>2. ASSUME NEW w \in Waiters, TakeState(w) PROVE SubscriberTypeOK'
  <2>1. "wait_contract_state" \in Modes
    BY DEF Modes
  <2> QED
    BY <1>2, <2>1 DEF TakeState, SubscriberTypeOK
<1>3. ASSUME NEW o \in Observers, NEW v \in Nat, Observe(o, v) PROVE SubscriberTypeOK'
  <2>1. Target[o] \in Accounts
    BY ConstantFacts
  <2>2. Opened(Target[o]) \in Subscription
    BY <2>1, OpenedType
  <2>3. [Opened(Target[o]) EXCEPT !.observers = @ \cup {o}] \in Subscription
    BY <2>2, SubscriptionFields DEF Subscription
  <2>4. subs' = [subs EXCEPT ![Target[o]] = [Opened(Target[o]) EXCEPT !.observers = @ \cup {o}]]
    BY <1>3 DEF Observe
  <2>5. subs' \in [Accounts -> Subscription]
    BY <2>1, <2>3, <2>4 DEF SubscriberTypeOK
  <2> QED
    BY <1>3, <2>5 DEF Observe, SubscriberTypeOK
<1>4. ASSUME NEW o \in Observers, DropObserver(o) PROVE SubscriberTypeOK'
  BY <1>4 DEF DropObserver, SubscriberTypeOK
<1>5. ASSUME HandleMasterchainBlock PROVE SubscriberTypeOK'
  BY <1>5 DEF HandleMasterchainBlock, SubscriberTypeOK
<1>6. ASSUME SubscriberCrash PROVE SubscriberTypeOK'
  BY <1>6, NoSubType DEF SubscriberCrash, SubscriberTypeOK, Modes
<1>7. ASSUME UNCHANGED subscriberVars PROVE SubscriberTypeOK'
  BY <1>7 DEF subscriberVars, SubscriberTypeOK
<1> QED
  BY <1>1, <1>2, <1>3, <1>4, <1>5, <1>6, <1>7

-----------------------------------------------------------------------------
(* The node and the chain                                                    *)

\* One round's shards are those of the round before, or one of them split or two
\* merged, and each covers every address; what the accounts were before the round
\* is kept as long as it lasts.
ChainShape ==
  /\ Covers(was) /\ Moved(was, shards)
  /\ \A a \in Accounts : Len(path[a]) # 0 /\ Len(path[a]) - 1 <= ver[a]

\* The node hands over blocks only after the full state of every shard, and what
\* is kept in memory is empty until then.
NodeShape ==
  /\ node # "blocks" => /\ ~mc /\ snapshot = {} /\ DOMAIN cache = {}
                        /\ \A s \in shards : stage[s] = "new"
  /\ node = "blocks" => stored
  /\ node = "states" => ~stored
  /\ node # "states" => todo = {}
  /\ todo \subseteq shards
  /\ reset.shard # 0 => node = "states" /\ reset.shard \in todo

NInv == TypeOK /\ ChainShape /\ NodeShape

LEMMA PathFacts ==
  ASSUME NEW q \in Seq(Bodies), Len(q) # 0
  PROVE  /\ q[1] \in Bodies /\ q[Len(q)] \in Bodies
         /\ Len(q) - 1 \in Nat
  OBVIOUS

LEMMA StateFacts ==
  ASSUME NInv, NEW a \in Accounts
  PROVE  /\ Before(a) \in State /\ After(a) \in State
         /\ Before(a).ver \in Nat /\ After(a).ver = Before(a).ver + (Len(path[a]) - 1)
         /\ path[a] \in Seq(Bodies) /\ Len(path[a]) # 0 /\ Len(path[a]) - 1 \in Nat
         /\ Handled(a) \in State /\ Handled(a).ver \in Nat
<1>1. path[a] \in Seq(Bodies) /\ Len(path[a]) # 0 /\ Len(path[a]) - 1 <= ver[a] /\ ver[a] \in Nat
  BY DEF NInv, TypeOK, ChainShape
<1>2. /\ path[a][1] \in Bodies /\ path[a][Len(path[a])] \in Bodies
      /\ Len(path[a]) - 1 \in Nat
  BY <1>1, PathFacts
<1>3. ver[a] - (Len(path[a]) - 1) \in Nat
  BY <1>1, <1>2
<1>4. /\ Before(a) \in State /\ After(a) \in State
      /\ Before(a).ver \in Nat /\ After(a).ver = Before(a).ver + (Len(path[a]) - 1)
  BY <1>1, <1>2, <1>3 DEF Before, After, State
<1> QED
  BY <1>1, <1>2, <1>4 DEF Handled, After

LEMMA ShardsCover ==
  ASSUME NInv
  PROVE  /\ Covers(shards) /\ shards \subseteq Idents /\ was \subseteq Idents
         /\ \A a \in Accounts : /\ a \in Points /\ ShardOf(a) \in shards /\ Contains(ShardOf(a), a)
                                /\ \A s \in shards : Contains(s, a) => s = ShardOf(a)
<1>1. Covers(shards)
  BY ConstantFacts, MovedCovers DEF NInv, ChainShape
<1>2. \A a \in Accounts : a \in Points
  BY ConstantFacts
<1> QED
  BY <1>1, <1>2, HolderIs DEF ShardOf, NInv, TypeOK

LEMMA Joined ==
  ASSUME NEW b \in Bodies, NEW q \in Seq(Bodies)
  PROVE  /\ <<b>> \o q \in Seq(Bodies) /\ Len(<<b>> \o q) = Len(q) + 1
         /\ (<<b>> \o q)[1] = b /\ Len(q) \in Nat
  OBVIOUS

LEMMA TxsType == ASSUME TypeOK PROVE Txs \subseteq Seq(Bodies)
<1>1. world.bodies \subseteq Bodies
  BY ConstantFacts DEF TypeOK, World
<1>2. /\ <<>> \in Seq(Bodies)
      /\ \A b, c \in Bodies : <<b>> \in Seq(Bodies) /\ <<b, c>> \in Seq(Bodies)
  OBVIOUS
<1> DEFINE B == world.bodies
<1>3. Txs = {<<>>} \cup {<<b>> : b \in B} \cup {<<b, c>> : b, c \in B}
  BY DEF Txs
<1> HIDE DEF B
<1>4. ASSUME NEW q \in Txs PROVE q \in Seq(Bodies)
  <2>1. \/ q = <<>>
        \/ \E b \in B : q = <<b>>
        \/ \E b, c \in B : q = <<b, c>>
    BY <1>3
  <2>2. \A b \in B : b \in Bodies
    BY <1>1 DEF B
  <2> QED
    BY <1>2, <2>1, <2>2
<1> QED
  BY <1>4

\* The first block after an edge starts from what the last one before it left.
LEMMA EdgeFacts ==
  ASSUME NInv, Edge
  PROVE  /\ was' = shards /\ Moved(shards, shards') /\ Covers(shards')
         /\ path' \in [Accounts -> Seq(Bodies)] /\ ver' \in [Accounts -> Nat]
         /\ \A a \in Accounts : /\ Len(path'[a]) # 0 /\ Len(path'[a]) - 1 <= ver'[a]
                                /\ Before(a)' = After(a)
         /\ stage' = [s \in shards' |-> "new"]
         /\ splits' \in Nat
<1>1. PICK new \in NextShards, txs \in [Accounts -> Txs] :
       /\ shards' = new
       /\ splits' = IF new = shards THEN splits ELSE splits + 1
       /\ path' = [a \in Accounts |-> <<After(a).body>> \o txs[a]]
       /\ ver' = [a \in Accounts |-> ver[a] + Len(txs[a])]
       /\ stage' = [s \in new |-> "new"]
  BY DEF Edge
<1>2. Moved(shards, shards')
  BY <1>1 DEF NextShards, Moved
<1>3. Covers(shards')
  BY <1>2, ShardsCover, ConstantFacts, MovedCovers
<1>4. ASSUME NEW a \in Accounts
      PROVE  /\ path'[a] \in Seq(Bodies) /\ ver'[a] \in Nat
             /\ Len(path'[a]) # 0 /\ Len(path'[a]) - 1 <= ver'[a]
             /\ Before(a)' = After(a)
  <2>1. txs[a] \in Seq(Bodies) /\ ver[a] \in Nat
    BY TxsType DEF NInv, TypeOK
  <2>2. After(a) \in State
    BY StateFacts
  <2> DEFINE b == After(a).body
  <2>3. b \in Bodies
    BY <2>2 DEF State
  <2>4. After(a) = [body |-> b, ver |-> ver[a]]
    BY DEF After
  <2>5. path'[a] = <<b>> \o txs[a] /\ ver'[a] = ver[a] + Len(txs[a])
    BY <1>1
  <2> HIDE DEF b
  <2>6. /\ path'[a] \in Seq(Bodies) /\ Len(path'[a]) = Len(txs[a]) + 1 /\ path'[a][1] = b
        /\ Len(txs[a]) \in Nat
    BY <2>1, <2>3, <2>5, Joined
  <2>7. ver'[a] - (Len(path'[a]) - 1) = ver[a]
    BY <2>1, <2>5, <2>6
  <2> QED
    BY <2>1, <2>4, <2>5, <2>6, <2>7 DEF Before
<1>5. path' \in [Accounts -> Seq(Bodies)] /\ ver' \in [Accounts -> Nat]
  <2>1. /\ path' = [a \in Accounts |-> path'[a]]
        /\ ver' = [a \in Accounts |-> ver'[a]]
    BY <1>1
  <2> QED
    BY <1>4, <2>1
<1>6. splits' \in Nat /\ was' = shards
  BY <1>1 DEF Edge, NInv, TypeOK
<1> QED
  BY <1>1, <1>2, <1>3, <1>4, <1>5, <1>6

LEMMA Failed ==
  ASSUME NEW s, NEW broken \in SUBSET Within(s), failures \in Nat
  PROVE  /\ Cardinality(broken) \in Nat
         /\ failures + Cardinality(broken) \in Nat
         /\ failures + Cardinality(broken) = 0 => failures = 0 /\ broken = {}
<1>1. IsFiniteSet(broken)
  BY ConstantFacts, FS_Subset DEF Within
<1>2. Cardinality(broken) \in Nat /\ (Cardinality(broken) = 0 => broken = {})
  BY <1>1, FS_CardinalityType, FS_EmptySet
<1> QED
  BY <1>2

\* What the tasks do changes neither the chain nor the node.
Task ==
  \/ TestReady \/ Park \/ WaitNow \/ ReadConfigurations \/ LoadSnapshot
  \/ \E a \in Accounts : ScanAccount(a)
  \/ \E w \in Waiters : Take(w) \/ \E m \in Modes : Ask(w, m)
  \/ \E o \in Observers : StartObserving(o) \/ StopObserving(o)

LEMMA NextIs ==
  Next <=> \/ Boot \/ Delete \/ FullStateDone \/ MasterchainBlock \/ Edge \/ Synced
           \/ Crash \/ StartFails \/ Task
           \/ \E s \in Idents :
                \/ FullState(s) \/ PersistBlock(s) \/ CacheBlock(s)
                \/ \E broken \in SUBSET Within(s) : HandleBlock(s, broken)
<1> HIDE DEF Boot, Delete, FullStateDone, MasterchainBlock, Edge, Synced, Crash, StartFails
<1> QED
  BY DEF Next, Task

LEMMA TaskKeeps ==
  ASSUME Task
  PROVE  UNCHANGED <<storageVars, chainVars, nodeVars, crashes, failures>>
<1> USE DEF TaskStep, StartStep
<1>1. CASE TestReady \/ Park \/ WaitNow \/ ReadConfigurations \/ LoadSnapshot
  BY <1>1 DEF TestReady, Park, WaitNow, ReadConfigurations, LoadSnapshot, Await
<1>2. CASE \E a \in Accounts : ScanAccount(a)
  BY <1>2 DEF ScanAccount
<1>3. CASE \E w \in Waiters : Take(w) \/ \E m \in Modes : Ask(w, m)
  BY <1>3 DEF Take, Ask
<1>4. CASE \E o \in Observers : StartObserving(o) \/ StopObserving(o)
  BY <1>4 DEF StartObserving, StopObserving
<1> QED
  BY <1>1, <1>2, <1>3, <1>4 DEF Task

LEMMA TaskTypes ==
  ASSUME NInv, Task
  PROVE  SubscriberTypeOK' /\ pc' \in Start /\ toScan' \subseteq Accounts
<1>0. SubscriberTypeOK /\ StorageTypeOK /\ pc \in Start /\ toScan \subseteq Accounts
  BY DEF NInv, TypeOK
<1> USE DEF TaskStep, StartStep, Start
<1>1. CASE TestReady
  BY <1>0, <1>1, SubscriberTypes DEF TestReady, AfterTest
<1>2. CASE Park
  BY <1>0, <1>2, SubscriberTypes DEF Park
<1>3. CASE WaitNow
  <2>1. awaiter' \in {"none", "later", "any"}
    BY <1>3 DEF WaitNow, Await
  <2> QED
    BY <1>0, <1>3, <2>1 DEF WaitNow, Await, SubscriberTypeOK
<1>4. CASE ReadConfigurations
  <2>1. awaiter' \in {"none", "later", "any"}
    BY <1>4 DEF ReadConfigurations, Await
  <2> QED
    BY <1>0, <1>4, <2>1 DEF ReadConfigurations, Await, SubscriberTypeOK
<1>5. CASE LoadSnapshot
  <2>1. UNCHANGED subscriberVars /\ toScan' = {p[2] : p \in UNION snapshot}
        /\ (pc' = "done" \/ pc' = "scan")
    BY <1>5 DEF LoadSnapshot
  <2>2. \A p \in UNION snapshot : p[2] \in Accounts
    BY <1>0 DEF StorageTypeOK, Index
  <2> QED
    BY <1>0, <2>1, <2>2, SubscriberTypes
<1>6. ASSUME NEW a \in Accounts, ScanAccount(a)
      PROVE  SubscriberTypeOK' /\ pc' \in Start /\ toScan' \subseteq Accounts
  <2>1. UNCHANGED subscriberVars /\ toScan' = toScan \ {a} /\ (pc' = "done" \/ pc' = "scan")
    BY <1>6 DEF ScanAccount
  <2> QED
    BY <1>0, <2>1, SubscriberTypes
<1>7. ASSUME NEW w \in Waiters, Take(w)
      PROVE  SubscriberTypeOK' /\ pc' \in Start /\ toScan' \subseteq Accounts
  BY <1>0, <1>7, SubscriberTypes DEF Take, startVars
<1>8. ASSUME NEW w \in Waiters, NEW m \in Modes, Ask(w, m)
      PROVE  SubscriberTypeOK' /\ pc' \in Start /\ toScan' \subseteq Accounts
  BY <1>0, <1>8, SubscriberTypes DEF Ask, startVars
<1>9. ASSUME NEW o \in Observers, StartObserving(o)
      PROVE  SubscriberTypeOK' /\ pc' \in Start /\ toScan' \subseteq Accounts
  <2>1. Handled(Target[o]).ver \in Nat
    BY ConstantFacts, StateFacts
  <2> QED
    BY <1>0, <1>9, <2>1, SubscriberTypes DEF StartObserving, startVars
<1>10. ASSUME NEW o \in Observers, StopObserving(o)
       PROVE  SubscriberTypeOK' /\ pc' \in Start /\ toScan' \subseteq Accounts
  BY <1>0, <1>10, SubscriberTypes DEF StopObserving, startVars
<1> QED
  BY <1>1, <1>2, <1>3, <1>4, <1>5, <1>6, <1>7, <1>8, <1>9, <1>10 DEF Task

LEMMA NodeInit == Init => NInv
<1> SUFFICES ASSUME Init PROVE NInv
  OBVIOUS
<1>1. StorageTypeOK /\ SubscriberTypeOK /\ snapshot = {} /\ DOMAIN cache = {} /\ reset.shard = 0
  BY StorageInitType, SubscriberInitType, NoCache DEF Init, StorageInit, NoReset
<1>2. Covers(shards) /\ was = shards
  BY ConstantFacts, FullCovers DEF Init
<1>3. world \in World /\ world \in Worlds
  BY ConstantFacts DEF Init
<1>4. PICK body \in [Accounts -> world.bodies] : path = [a \in Accounts |-> <<body[a]>>]
  BY DEF Init
<1>5. ASSUME NEW a \in Accounts PROVE path[a] \in Seq(Bodies) /\ Len(path[a]) = 1
  <2>1. body[a] \in Bodies
    BY <1>3 DEF World
  <2>2. path[a] = <<body[a]>>
    BY <1>4
  <2> QED
    BY <2>1, <2>2
<1>6. path \in [Accounts -> Seq(Bodies)] /\ ver = [a \in Accounts |-> 0]
  <2>1. path = [a \in Accounts |-> path[a]]
    BY <1>4
  <2> QED
    BY <1>5, <2>1 DEF Init
<1>7. stage = [s \in shards |-> "new"] /\ node = "down" /\ todo = {} /\ stored = FALSE /\ mc = FALSE
  BY DEF Init
<1>8. TypeOK
  <2>1. shards \subseteq Idents /\ was \subseteq Idents
    BY <1>2 DEF Covers
  <2>2. stage \in [shards -> Stages] /\ pc \in Start /\ toScan \subseteq Accounts
    BY <1>7 DEF Stages, Start, Init
  <2>3. {splits, crashes, failures} \subseteq Nat
    BY DEF Init
  <2> QED
    BY <1>1, <1>3, <1>6, <1>7, <2>1, <2>2, <2>3 DEF TypeOK
<1>9. ChainShape
  <2>1. Covers(was) /\ Moved(was, shards)
    BY <1>2 DEF Moved
  <2>2. \A a \in Accounts : Len(path[a]) = 1 /\ ver[a] = 0
    BY <1>5, <1>6
  <2>3. ASSUME NEW a \in Accounts PROVE Len(path[a]) # 0 /\ Len(path[a]) - 1 <= ver[a]
    <3>1. Len(path[a]) = 1 /\ ver[a] = 0
      BY <2>2
    <3> QED
      BY <3>1
  <2> QED
    BY <2>1, <2>3 DEF ChainShape
<1>10. NodeShape
  BY <1>1, <1>7 DEF NodeShape
<1> QED
  BY <1>8, <1>9, <1>10 DEF NInv

\* What an action must keep that leaves the chain alone.
LEMMA ChainKept ==
  ASSUME NInv, UNCHANGED chainVars
  PROVE  /\ ChainShape' /\ UNCHANGED shards
         /\ shards' \subseteq Idents /\ was' \subseteq Idents
         /\ path' \in [Accounts -> Seq(Bodies)] /\ ver' \in [Accounts -> Nat]
         /\ world' \in Worlds /\ splits' \in Nat
         /\ \A a \in Accounts : Before(a)' = Before(a) /\ After(a)' = After(a)
                                /\ ShardOf(a)' = ShardOf(a)
  BY DEF chainVars, NInv, TypeOK, ChainShape, Before, After, ShardOf

LEMMA EdgeNode == ASSUME NInv, Edge PROVE NInv'
<1>1. /\ node = "blocks" /\ UpdateSnapshot
      /\ UNCHANGED <<ready, subs, waiter, mode, alive, heard, world, node, todo, stored,
                     startVars, crashes, failures>>
      /\ mc' = FALSE /\ awaiter' = IF awaiter = "later" THEN "any" ELSE awaiter
  BY DEF Edge
<1>2. StorageTypeOK' /\ SubscriberTypeOK'
  BY <1>1, StorageTypes DEF NInv, TypeOK, SubscriberTypeOK
<1>3. shards' \subseteq Idents /\ was' \subseteq Idents
  BY EdgeFacts, ShardsCover DEF Covers
<1>4. stage' \in [shards' -> Stages]
  BY EdgeFacts DEF Stages
<1>5. TypeOK'
  BY <1>1, <1>2, <1>3, <1>4, EdgeFacts DEF NInv, TypeOK, startVars, NodeShape
<1>6. ChainShape'
  <2>1. Covers(was') /\ Moved(was', shards')
    BY EdgeFacts, ShardsCover
  <2> QED
    BY <2>1, EdgeFacts DEF ChainShape
<1>7. NodeShape'
  BY <1>1 DEF NodeShape, NInv, UpdateSnapshot
<1> QED
  BY <1>5, <1>6, <1>7 DEF NInv

LEMMA ExitNode ==
  ASSUME NInv, Exit, pc' \in Start, crashes' \in Nat
  PROVE  NInv'
<1>1. /\ StorageCrash /\ SubscriberCrash
      /\ node' = "down" /\ todo' = {}
      /\ stage' = [s \in shards |-> "new"] /\ mc' = FALSE
      /\ toScan' = {}
      /\ UNCHANGED <<chainVars, stored, failures>>
  BY DEF Exit
<1>2. StorageTypeOK' /\ SubscriberTypeOK'
  BY <1>1, StorageTypes, SubscriberTypes DEF NInv, TypeOK
<1>3. TypeOK'
  BY <1>1, <1>2, ChainKept DEF NInv, TypeOK, Stages
<1>4. DOMAIN cache' = {} /\ snapshot' = {} /\ reset'.shard = 0
  BY <1>1, NoCache DEF StorageCrash, NoReset
<1>5. NodeShape'
  BY <1>1, <1>4, ChainKept DEF NodeShape
<1> QED
  BY <1>1, <1>3, <1>5, ChainKept DEF NInv

LEMMA NodeNext == ASSUME NInv, [Next]_vars PROVE NInv'
<1>0. TypeOK /\ ChainShape /\ NodeShape
  BY DEF NInv
<1>1. CASE Boot
  <2>1. /\ node = "down" /\ node' = (IF stored THEN "blocks" ELSE "states")
        /\ todo' = (IF stored THEN {} ELSE shards) /\ pc' = "start"
        /\ UNCHANGED <<storageVars, subscriberVars, chainVars, stored, stage, mc, toScan,
                       crashes, failures>>
    BY <1>1 DEF Boot
  <2>2. StorageTypeOK' /\ SubscriberTypeOK'
    BY <1>0, <2>1, StorageTypes, SubscriberTypes DEF TypeOK
  <2>3. TypeOK'
    BY <1>0, <2>1, <2>2, ChainKept DEF TypeOK, Start
  <2>4. NodeShape'
    BY <1>0, <2>1, ChainKept DEF NodeShape, storageVars, TypeOK
  <2> QED
    BY <2>1, <2>3, <2>4, ChainKept DEF NInv
<1>2. ASSUME NEW s \in Idents, FullState(s) PROVE NInv'
  <2>1. /\ node = "states" /\ s \in todo /\ BeginReset(s)
        /\ UNCHANGED <<subscriberVars, chainVars, nodeVars, startVars, crashes, failures>>
    BY <1>2 DEF FullState
  <2>2. StorageTypeOK' /\ SubscriberTypeOK'
    BY <1>0, <2>1, StorageTypes, SubscriberTypes DEF TypeOK
  <2>3. TypeOK'
    BY <1>0, <2>1, <2>2, ChainKept DEF TypeOK, nodeVars, startVars
  <2>4. NodeShape'
    BY <1>0, <2>1, ChainKept DEF NodeShape, nodeVars, BeginReset
  <2> QED
    BY <2>1, <2>3, <2>4, ChainKept DEF NInv
<1>3. CASE Delete
  <2>1. DeleteKey /\ UNCHANGED <<subscriberVars, chainVars, nodeVars, startVars, crashes, failures>>
    BY <1>3 DEF Delete
  <2>2. StorageTypeOK' /\ SubscriberTypeOK'
    BY <1>0, <2>1, StorageTypes, SubscriberTypes DEF TypeOK
  <2>3. TypeOK'
    BY <1>0, <2>1, <2>2, ChainKept DEF TypeOK, nodeVars, startVars
  <2>4. reset'.shard = reset.shard /\ UNCHANGED <<snapshot, cache>>
    BY <1>0, <2>1 DEF DeleteKey, TypeOK, StorageTypeOK, Reset
  <2>5. NodeShape'
    BY <1>0, <2>1, <2>4, ChainKept DEF NodeShape, nodeVars
  <2> QED
    BY <2>1, <2>3, <2>5, ChainKept DEF NInv
<1>4. CASE FullStateDone
  <2>1. /\ WriteState([a \in Accounts |-> Before(a).body])
        /\ todo' = todo \ {reset.shard}
        /\ node' = (IF todo' = {} THEN "blocks" ELSE node)
        /\ stored' = (todo' = {})
        /\ UNCHANGED <<subscriberVars, chainVars, stage, mc, startVars, crashes, failures>>
    BY <1>4 DEF FullStateDone
  <2>2. StorageTypeOK' /\ SubscriberTypeOK'
    BY <1>0, <2>1, StorageTypes, SubscriberTypes DEF TypeOK
  <2>3. reset.shard # 0 /\ reset'.shard = 0 /\ UNCHANGED <<snapshot, cache>>
    BY <2>1 DEF WriteState, NoReset
  <2>4. node = "states" /\ reset.shard \in todo
    BY <1>0, <2>3 DEF NodeShape
  <2>5. TypeOK'
    BY <1>0, <2>1, <2>2, <2>4, ChainKept DEF TypeOK, startVars
  <2>6. NodeShape'
    BY <1>0, <2>1, <2>3, <2>4, ChainKept DEF NodeShape
  <2> QED
    BY <2>1, <2>5, <2>6, ChainKept DEF NInv
<1>5. ASSUME NEW s, NEW from, NEW to \in Stages, Advance(s, from, to),
             StorageTypeOK', SubscriberTypeOK', failures' \in Nat, UNCHANGED <<snapshot, reset>>
      PROVE  NInv'
  <2>1. /\ node = "blocks" /\ stage' = [stage EXCEPT ![s] = to]
        /\ UNCHANGED <<chainVars, node, todo, stored, mc, startVars, crashes>>
    BY <1>5 DEF Advance
  <2>2. stage' \in [shards' -> Stages]
    BY <1>0, <2>1, ChainKept DEF TypeOK
  <2>3. TypeOK'
    BY <1>0, <1>5, <2>1, <2>2, ChainKept DEF TypeOK, startVars
  <2>4. NodeShape'
    BY <1>0, <1>5, <2>1, ChainKept DEF NodeShape
  <2> QED
    BY <2>1, <2>3, <2>4, ChainKept DEF NInv
<1>6. ASSUME NEW s \in Idents, NEW broken \in SUBSET Within(s), HandleBlock(s, broken)
      PROVE  NInv'
  <2>1. /\ Advance(s, "new", "handled")
        /\ IF ready
           THEN HandleShardBlock(s, [a \in Accounts |-> After(a)],
                                 [a \in Accounts |-> Len(path[a]) - 1], broken)
           ELSE UNCHANGED subscriberVars
        /\ failures' = failures + Cardinality(broken)
        /\ UNCHANGED storageVars
    BY <1>6 DEF HandleBlock
  <2>2. /\ [a \in Accounts |-> After(a)] \in [Accounts -> State]
        /\ [a \in Accounts |-> Len(path[a]) - 1] \in [Accounts -> Nat]
    BY StateFacts
  <2>3. SubscriberTypeOK' /\ StorageTypeOK'
    BY <1>0, <2>1, <2>2, HandleTypes, SubscriberTypes, StorageTypes DEF TypeOK
  <2>4. failures' \in Nat
    BY <1>0, <2>1, Failed DEF TypeOK
  <2> QED
    BY <1>5, <2>1, <2>3, <2>4 DEF Stages, storageVars
<1>7. ASSUME NEW s \in Idents, PersistBlock(s) PROVE NInv'
  <2>1. Advance(s, "handled", "persisted") /\ UpdateIndex(s, path) /\ UNCHANGED <<subscriberVars, failures>>
    BY <1>7 DEF PersistBlock
  <2>2. SubscriberTypeOK' /\ StorageTypeOK' /\ failures' \in Nat
    BY <1>0, <2>1, SubscriberTypes, StorageTypes DEF TypeOK
  <2>3. UNCHANGED <<snapshot, reset>>
    BY <2>1 DEF UpdateIndex
  <2> QED
    BY <1>5, <2>1, <2>2, <2>3 DEF Stages
<1>8. ASSUME NEW s \in Idents, CacheBlock(s) PROVE NInv'
  <2>1. /\ Advance(s, "persisted", "done")
        /\ UpdateCache(s, Prev(s), [a \in Accounts |-> After(a)])
        /\ UNCHANGED <<subscriberVars, failures>>
    BY <1>8 DEF CacheBlock
  <2>2. [a \in Accounts |-> After(a)] \in [Accounts -> State]
    BY StateFacts
  <2>3. SubscriberTypeOK' /\ StorageTypeOK' /\ failures' \in Nat
    BY <1>0, <2>1, <2>2, SubscriberTypes, StorageTypes DEF TypeOK
  <2>4. UNCHANGED <<snapshot, reset>>
    BY <2>1 DEF UpdateCache
  <2> QED
    BY <1>5, <2>1, <2>3, <2>4 DEF Stages
<1>9. CASE MasterchainBlock
  <2>1. /\ node = "blocks" /\ mc' = TRUE /\ HandleMasterchainBlock
        /\ UNCHANGED <<storageVars, chainVars, node, todo, stored, stage, startVars,
                       crashes, failures>>
    BY <1>9 DEF MasterchainBlock
  <2>2. SubscriberTypeOK' /\ StorageTypeOK'
    BY <1>0, <2>1, SubscriberTypes, StorageTypes DEF TypeOK
  <2>3. TypeOK'
    BY <1>0, <2>1, <2>2, ChainKept DEF TypeOK, startVars
  <2>4. NodeShape'
    BY <1>0, <2>1, ChainKept DEF NodeShape, storageVars
  <2> QED
    BY <2>1, <2>3, <2>4, ChainKept DEF NInv
<1>10. CASE Synced
  <2>1. /\ ready' = TRUE
        /\ pc' = (IF pc = "parked" THEN "synced" ELSE pc)
        /\ UNCHANGED <<storageVars, awaiter, subs, waiter, mode, alive, heard, chainVars,
                       nodeVars, toScan, crashes, failures>>
    BY <1>10 DEF Synced
  <2>2. SubscriberTypeOK' /\ StorageTypeOK'
    BY <1>0, <2>1, StorageTypes DEF TypeOK, SubscriberTypeOK
  <2>3. TypeOK'
    BY <1>0, <2>1, <2>2, ChainKept DEF TypeOK, nodeVars, Start
  <2>4. NodeShape'
    BY <1>0, <2>1, ChainKept DEF NodeShape, nodeVars, storageVars
  <2> QED
    BY <2>1, <2>3, <2>4, ChainKept DEF NInv
<1>11. CASE Crash
  <2>1. Exit /\ pc' \in Start /\ crashes' \in Nat
    BY <1>0, <1>11 DEF Crash, Start, TypeOK
  <2> QED
    BY <2>1, ExitNode
<1>12. CASE StartFails
  <2>1. Exit /\ pc' \in Start /\ crashes' \in Nat
    BY <1>0, <1>12 DEF StartFails, Start, TypeOK
  <2> QED
    BY <2>1, ExitNode
<1>13. CASE Task
  <2>1. UNCHANGED <<storageVars, chainVars, nodeVars, crashes, failures>>
    BY <1>13, TaskKeeps
  <2>2. SubscriberTypeOK' /\ StorageTypeOK' /\ pc' \in Start /\ toScan' \subseteq Accounts
    BY <1>0, <1>13, <2>1, StorageTypes, TaskTypes DEF TypeOK
  <2>3. TypeOK'
    BY <1>0, <2>1, <2>2, ChainKept DEF TypeOK, nodeVars
  <2>4. NodeShape'
    BY <1>0, <2>1, ChainKept DEF NodeShape, nodeVars, storageVars
  <2> QED
    BY <2>1, <2>3, <2>4, ChainKept DEF NInv
<1>14. CASE UNCHANGED vars
  <2>1. UNCHANGED <<storageVars, subscriberVars, chainVars, nodeVars, startVars, crashes, failures>>
    BY <1>14 DEF vars
  <2>2. SubscriberTypeOK' /\ StorageTypeOK'
    BY <1>0, <2>1, StorageTypes, SubscriberTypes DEF TypeOK
  <2>3. TypeOK'
    BY <1>0, <2>1, <2>2, ChainKept DEF TypeOK, nodeVars, startVars
  <2>4. NodeShape'
    BY <1>0, <2>1, ChainKept DEF NodeShape, nodeVars, storageVars
  <2> QED
    BY <2>1, <2>3, <2>4, ChainKept DEF NInv
<1>15. CASE Edge
  BY <1>15, EdgeNode
<1> QED
  BY <1>1, <1>2, <1>3, <1>4, <1>6, <1>7, <1>8, <1>9, <1>10, <1>11, <1>12, <1>13, <1>14, <1>15,
     NextIs

\* Every round's shards cover every address, and the node hands over blocks only
\* after every full state.
THEOREM NodeInvariant == Spec => []NInv
<1>1. Init => NInv
  BY NodeInit
<1>2. NInv /\ [Next]_vars => NInv'
  BY NodeNext
<1> QED
  BY <1>1, <1>2, PTL DEF Spec

\* The variables hold what the code keeps in them: shards are prefixes with a tag,
\* each index is keyed by accounts, a shard's cached accounts are its own, and no
\* account has fewer transactions than its last block.
THEOREM TypeCorrect == Spec => []TypeOK
<1>1. NInv => TypeOK
  BY DEF NInv
<1> QED
  BY <1>1, NodeInvariant, PTL

-----------------------------------------------------------------------------
(* The indices                                                               *)

\* What an index holds of one account.
Held(index, a) == {p \in index : p[2] = a}

HoldsState(s, a) ==
  \/ Held(primary, a) = Entry(a, After(a).body)
  \/ stage[s] \in {"new", "handled"} /\ Held(primary, a) = Entry(a, Before(a).body)

\* A reset first empties the secondary index of its shard's accounts, and the
\* primary then holds of them what is left to delete.  Once all full states have
\* been written the two are the same, and stay so.
IndexShape ==
  /\ secondary \subseteq primary
  /\ reset.keys \subseteq primary
  /\ reset.shard = 0 => reset.keys = {}
  /\ \A p \in reset.keys : p[2] \in Within(reset.shard)
  /\ reset.shard # 0 =>
       \A a \in Within(reset.shard) : /\ Held(secondary, a) = {}
                                      /\ Held(primary, a) \subseteq reset.keys
  /\ node = "states" =>
       \A s \in shards \ todo : \A a \in Within(s) :
         /\ Held(primary, a) = Entry(a, Before(a).body)
         /\ Held(secondary, a) = Entry(a, Before(a).body)
  /\ stored => /\ secondary = primary
               /\ \A s \in shards : \A a \in Within(s) : HoldsState(s, a)

IInv == NInv /\ IndexShape

\* Transactions that neither store an account's code hash nor remove it leave it
\* as it was.
LEMMA Unchanging ==
  ASSUME NEW q \in Seq(Bodies), Len(q) # 0, ~Changed(q), NEW a
  PROVE  Entry(a, q[1]) = Entry(a, q[Len(q)])
<1>1. Len(q) \in Nat \ {0}
  OBVIOUS
<1>2. CASE Len(q) = 1
  BY <1>2
<1>3. CASE Len(q) # 1
  <2>1. ~Stores(q) /\ ~Removes(q)
    BY <1>1, <1>3 DEF Changed
  <2>2. CASE ~Is(q)
    <3>1. ~Was(q)
      BY <2>1, <2>2 DEF Removes
    <3> QED
      BY <2>2, <3>1 DEF Is, Was, Active, Entry
  <2>3. CASE Is(q)
    <3>1. Was(q) /\ ~SpecialActions(q) /\ ~Redeployed(q)
      BY <2>1, <2>3 DEF Stores
    <3>2. \A i \in 1 .. Len(q) - 1 : Active(q[i])
      BY <3>1 DEF Redeployed
    <3>3. ASSUME NEW i \in 1 .. Len(q) - 1 PROVE q[i] = q[i + 1]
      <4>1. Active(q[i]) /\ Active(q[i + 1])
        <5>1. CASE i = Len(q) - 1
          BY <1>1, <2>3, <3>2, <5>1 DEF Is
        <5>2. CASE i # Len(q) - 1
          <6>1. i + 1 \in 1 .. Len(q) - 1
            BY <1>1, <5>2
          <6> QED
            BY <3>2, <6>1
        <5> QED
          BY <5>1, <5>2
      <4> QED
        BY <3>1, <4>1 DEF SpecialActions
    <3> DEFINE Other == {i \in 1 .. Len(q) : q[i] # q[1]}
    <3>4. Other = {}
      <4>1. SUFFICES ASSUME Other # {} PROVE FALSE
        OBVIOUS
      <4>2. PICK n \in Other : \A m \in Other : n <= m
        <5>1. Other \in SUBSET Nat
          BY <1>1
        <5> HIDE DEF Other
        <5> QED
          BY <4>1, <5>1, Least
      <4>3. n \in 1 .. Len(q) /\ q[n] # q[1]
        OBVIOUS
      <4>4. n - 1 \in 1 .. Len(q) - 1
        BY <1>1, <4>3
      <4>5. q[n - 1] = q[n]
        <5>1. (n - 1) + 1 = n
          BY <4>3
        <5> QED
          BY <3>3, <4>4, <5>1
      <4>6. n - 1 \notin Other
        <5>1. ~(n <= n - 1)
          BY <4>3
        <5> QED
          BY <4>2, <5>1
      <4>7. q[n - 1] = q[1]
        BY <1>1, <4>4, <4>6
      <4> QED
        BY <4>3, <4>5, <4>7
    <3> QED
      BY <1>1, <3>4
  <2> QED
    BY <2>2, <2>3
<1> QED
  BY <1>1, <1>2, <1>3

LEMMA SameHeld ==
  ASSUME NEW X \in SUBSET Index, NEW Y \in SUBSET Index,
         \A a \in Accounts : Held(X, a) = Held(Y, a)
  PROVE  X = Y
<1>1. \A p \in X \cup Y : p[2] \in Accounts
  BY DEF Index
<1>2. \A p : p[2] \in Accounts => (p \in X <=> p \in Y)
  BY DEF Held
<1> QED
  BY <1>1, <1>2

\* A block's update puts one entry of an account for the other in both indices.
LEMMA UpdateHeld ==
  ASSUME secondary = primary, NEW s, NEW q, UpdateIndex(s, q)
  PROVE  /\ secondary' = primary'
         /\ \A a \in Accounts :
              Held(primary', a) =
                IF a \in Within(s) /\ Changed(q[a]) /\ Held(primary, a) # Entry(a, q[a][Len(q[a])])
                THEN Entry(a, q[a][Len(q[a])]) ELSE Held(primary, a)
<1> DEFINE New(a) == Entry(a, q[a][Len(q[a])])
           T == {a \in Within(s) : Changed(q[a]) /\ Stored(a) # New(a)}
           Old == UNION {Stored(a) : a \in T}
           Add == UNION {New(a) : a \in T}
<1>1. primary' = (primary \ Old) \cup Add /\ secondary' = {p \in secondary : p[2] \notin T} \cup Add
  BY DEF UpdateIndex
<1>2. \A a : Stored(a) = Held(primary, a)
  BY DEF Stored, Held
<1>3. T \subseteq Accounts
  BY DEF Within
<1>4. \A a \in T : \A p \in New(a) : p[2] = a
  BY <1>3, EntryType
<1>5. \A a : a \in T <=> a \in Within(s) /\ Changed(q[a]) /\ Held(primary, a) # New(a)
  BY <1>2
<1> HIDE DEF T, New
<1>6. \A p : p \in Old <=> p \in primary /\ p[2] \in T
  <2>1. \A p : p \in Old <=> \E a \in T : p \in Held(primary, a)
    BY <1>2
  <2> QED
    BY <2>1 DEF Held
<1>7. \A p : p \in Add <=> p[2] \in T /\ p \in New(p[2])
  <2>1. \A p : p \in Add <=> \E a \in T : p \in New(a)
    OBVIOUS
  <2> QED
    BY <1>4, <2>1
<1> HIDE DEF Old, Add
<1>8. secondary' = primary'
  BY <1>1, <1>6
<1>9. ASSUME NEW a \in Accounts
      PROVE  Held(primary', a) = IF a \in T THEN New(a) ELSE Held(primary, a)
  <2>1. CASE a \in T
    BY <1>1, <1>4, <1>6, <1>7, <2>1 DEF Held
  <2>2. CASE a \notin T
    BY <1>1, <1>6, <1>7, <2>2 DEF Held
  <2> QED
    BY <2>1, <2>2
<1> QED
  BY <1>5, <1>8, <1>9 DEF New

LEMMA IndexInit == Init => IndexShape
<1> SUFFICES ASSUME Init PROVE IndexShape
  OBVIOUS
<1> QED
  BY DEF Init, StorageInit, NoReset, IndexShape

\* What need not be said again of an action that leaves the indices alone.
LEMMA IndexKept ==
  ASSUME IInv, UNCHANGED <<primary, secondary, reset, chainVars, node, todo, stored>>,
         \A s \in shards : stage[s] \in {"new", "handled"} => stage'[s] \in {"new", "handled"}
  PROVE  IndexShape'
<1>1. /\ UNCHANGED <<primary, secondary, reset, shards, node, todo, stored>>
      /\ \A a \in Accounts : Before(a)' = Before(a) /\ After(a)' = After(a)
  BY ChainKept DEF IInv
<1>2. \A s \in shards : \A a \in Accounts : HoldsState(s, a) => HoldsState(s, a)'
  BY <1>1 DEF HoldsState
<1>3. \A s : Within(s)' = Within(s) /\ Within(s) \subseteq Accounts
  BY DEF Within
<1> QED
  BY <1>1, <1>2, <1>3 DEF IInv, IndexShape

LEMMA EdgeIndex == ASSUME IInv, Edge PROVE IndexShape'
<1>1. /\ node = "blocks" /\ \A s \in shards : stage[s] = "done"
      /\ UNCHANGED <<primary, secondary, reset, node, todo, stored>>
  BY DEF Edge, UpdateSnapshot
<1>2. /\ secondary = primary
      /\ \A s \in shards : \A a \in Within(s) : HoldsState(s, a)
      /\ stored /\ reset.shard = 0 /\ reset.keys = {}
  BY <1>1 DEF IInv, NInv, NodeShape, IndexShape
<1>3. ASSUME NEW a \in Accounts PROVE Held(primary, a) = Entry(a, After(a).body)
  <2>1. ShardOf(a) \in shards /\ a \in Within(ShardOf(a))
    BY ShardsCover DEF IInv, Within
  <2> QED
    BY <1>1, <1>2, <2>1 DEF HoldsState
<1>4. ASSUME NEW s \in shards', NEW a \in Within(s)' PROVE HoldsState(s, a)'
  <2>1. stage'[s] = "new" /\ Before(a)' = After(a) /\ a \in Accounts
    BY EdgeFacts DEF IInv, Within
  <2> QED
    BY <1>1, <1>3, <2>1 DEF HoldsState
<1> QED
  BY <1>1, <1>2, <1>4 DEF IndexShape

LEMMA FullStateIndex ==
  ASSUME IInv, NEW s \in Idents, FullState(s)
  PROVE  IndexShape'
<1>0. NInv /\ IndexShape /\ NodeShape /\ StorageTypeOK
  BY DEF IInv, NInv, TypeOK
<1>1. /\ node = "states" /\ s \in todo /\ reset = NoReset
      /\ secondary' = {p \in secondary : ~InRange(s, p[2])}
      /\ reset' = [shard |-> s, keys |-> {p \in primary : Masked(s, p[2])}]
      /\ UNCHANGED <<primary, shards, node, todo, stored>>
      /\ \A a \in Accounts : Before(a)' = Before(a)
  BY <1>0, ChainKept DEF FullState, BeginReset, nodeVars
<1>2. s \in shards /\ ~stored /\ s # 0
  BY <1>0, <1>1 DEF NodeShape, Idents
<1>3. \A a \in Accounts : /\ InRange(s, a) <=> a \in Within(s)
                          /\ Masked(s, a) <=> a \in Within(s)
  BY ContainsIs, ConstantFacts DEF Within
<1>4. \A p \in primary : p[2] \in Accounts
  BY <1>0 DEF StorageTypeOK, Index
<1>5. secondary \subseteq primary
  BY <1>0 DEF IndexShape
<1>6. /\ \A p \in reset'.keys : p \in primary /\ p[2] \in Within(s)
      /\ \A a \in Within(s) : Held(secondary', a) = {} /\ Held(primary', a) \subseteq reset'.keys
  BY <1>1, <1>3, <1>4, <1>5 DEF Held, Within
<1>7. ASSUME NEW t \in shards \ todo, NEW a \in Within(t)
      PROVE  /\ Held(primary', a) = Entry(a, Before(a).body)
             /\ Held(secondary', a) = Entry(a, Before(a).body)
  <2>1. a \in Accounts /\ a \notin Within(s)
    <3>1. a \in Accounts /\ Contains(t, a)
      BY DEF Within
    <3>2. ~Contains(s, a)
      BY <1>0, <1>1, <1>2, <3>1, ShardsCover
    <3> QED
      BY <3>1, <3>2 DEF Within
  <2>2. Held(secondary', a) = Held(secondary, a)
    BY <1>1, <1>3, <2>1 DEF Held
  <2> QED
    BY <1>0, <1>1, <2>2 DEF IndexShape
<1>8. \A t : Within(t)' = Within(t)
  BY DEF Within
<1>9. reset'.shard = s
  BY <1>1
<1> QED
  BY <1>1, <1>2, <1>5, <1>6, <1>7, <1>8, <1>9 DEF IndexShape, Within

LEMMA DeleteIndex == ASSUME IInv, Delete PROVE IndexShape'
<1>0. NInv /\ IndexShape /\ NodeShape /\ StorageTypeOK
  BY DEF IInv, NInv, TypeOK
<1>1. PICK p \in reset.keys : primary' = primary \ {p} /\ reset' = [reset EXCEPT !.keys = @ \ {p}]
  BY DEF Delete, DeleteKey
<1>2. /\ UNCHANGED <<secondary, shards, node, todo, stored>>
      /\ \A a \in Accounts : Before(a)' = Before(a)
  BY <1>0, ChainKept DEF Delete, DeleteKey, nodeVars
<1>3. reset'.shard = reset.shard /\ reset'.keys = reset.keys \ {p}
  BY <1>0, <1>1 DEF StorageTypeOK, Reset
<1>4. /\ reset.shard # 0 /\ node = "states" /\ reset.shard \in todo /\ ~stored
      /\ p[2] \in Within(reset.shard) /\ reset.shard \in shards
  BY <1>0, <1>1 DEF IndexShape, NodeShape
<1>5. /\ secondary \subseteq primary /\ reset.keys \subseteq primary
      /\ \A r \in reset.keys : r[2] \in Within(reset.shard)
      /\ \A a \in Within(reset.shard) : /\ Held(secondary, a) = {}
                                        /\ Held(primary, a) \subseteq reset.keys
  BY <1>0, <1>4 DEF IndexShape
<1>6. p \notin secondary
  BY <1>4, <1>5 DEF Held
<1>7. ASSUME NEW t \in shards \ todo, NEW a \in Within(t)
      PROVE  Held(primary', a) = Held(primary, a) /\ a \in Accounts
  <2>1. a \in Accounts /\ Contains(t, a)
    BY DEF Within
  <2>2. ~Contains(reset.shard, a)
    BY <1>0, <1>4, <2>1, ShardsCover
  <2>3. p[2] # a
    BY <1>4, <2>2 DEF Within
  <2> QED
    BY <1>1, <2>1, <2>3 DEF Held
<1>8. \A a \in Within(reset.shard) : Held(primary', a) \subseteq reset'.keys
  BY <1>1, <1>3, <1>5 DEF Held
<1>9. \A t : Within(t)' = Within(t)
  BY DEF Within
<1>10. \A t \in shards \ todo : \A a \in Within(t) : 
         /\ Held(primary, a) = Entry(a, Before(a).body)
         /\ Held(secondary, a) = Entry(a, Before(a).body)
  BY <1>0, <1>4 DEF IndexShape
<1>11. secondary' \subseteq primary' /\ reset'.keys \subseteq primary'
  BY <1>1, <1>2, <1>3, <1>5, <1>6
<1>12. \A t \in shards' \ todo' : \A a \in Within(t)' :
         /\ Held(primary', a) = Entry(a, Before(a)'.body)
         /\ Held(secondary', a) = Entry(a, Before(a)'.body)
  BY <1>2, <1>7, <1>9, <1>10
<1> QED
  BY <1>2, <1>3, <1>4, <1>5, <1>8, <1>9, <1>11, <1>12 DEF IndexShape

LEMMA FullStateDoneIndex == ASSUME IInv, FullStateDone PROVE IndexShape'
<1>0. NInv /\ IndexShape /\ NodeShape /\ StorageTypeOK
  BY DEF IInv, NInv, TypeOK
<1> DEFINE s == reset.shard
           new == Entries(Within(s), [a \in Accounts |-> Before(a).body])
           A == {p[2] : p \in new}
<1>1. /\ s # 0 /\ reset.keys = {}
      /\ primary' = primary \cup new
      /\ secondary' = {p \in secondary : p[2] \notin A} \cup new
      /\ reset' = NoReset
      /\ todo' = todo \ {s}
      /\ stored' = (todo' = {})
      /\ node' = (IF todo' = {} THEN "blocks" ELSE node)
      /\ UNCHANGED <<shards, stage>>
      /\ \A a \in Accounts : Before(a)' = Before(a)
  BY <1>0, ChainKept DEF FullStateDone, WriteState
<1>2. node = "states" /\ s \in todo /\ todo \subseteq shards
  BY <1>0, <1>1 DEF NodeShape
<1>3. /\ secondary \subseteq primary
      /\ \A a \in Within(s) : Held(secondary, a) = {} /\ Held(primary, a) = {}
      /\ \A t \in shards \ todo : \A a \in Within(t) :
           /\ Held(primary, a) = Entry(a, Before(a).body)
           /\ Held(secondary, a) = Entry(a, Before(a).body)
  BY <1>0, <1>1, <1>2 DEF IndexShape
<1>4. \A p : p \in new <=> p[2] \in Within(s) /\ p \in Entry(p[2], Before(p[2]).body)
  <2>1. \A a \in Within(s) : a \in Accounts
    BY DEF Within
  <2>2. \A p : p \in new <=> \E a \in Within(s) : p \in Entry(a, Before(a).body)
    BY <2>1 DEF Entries
  <2>3. \A a \in Within(s) : \A p \in Entry(a, Before(a).body) : p[2] = a
    BY <2>1, EntryType
  <2> HIDE DEF new
  <2> QED
    BY <2>2, <2>3
<1>5. \A p : p[2] \in A => p[2] \in Within(s)
  <2> HIDE DEF new
  <2> QED
    BY <1>4
<1> HIDE DEF s, new, A
<1>6. ASSUME NEW a \in Within(s)
      PROVE  /\ Held(primary', a) = Entry(a, Before(a).body)
             /\ Held(secondary', a) = Entry(a, Before(a).body)
  <2>1. a \in Accounts
    BY DEF Within
  <2>2. \A p \in Entry(a, Before(a).body) : p[2] = a
    BY <2>1, EntryType
  <2>3. \A p : p[2] = a => p \notin primary /\ p \notin secondary
    BY <1>3 DEF Held
  <2> QED
    BY <1>1, <1>4, <2>2, <2>3 DEF Held
<1>7. ASSUME NEW a, a \notin Within(s)
      PROVE  Held(primary', a) = Held(primary, a) /\ Held(secondary', a) = Held(secondary, a)
  BY <1>1, <1>4, <1>5, <1>7 DEF Held
<1>8. ASSUME NEW t \in shards' \ todo', NEW a \in Within(t)'
      PROVE  /\ Held(primary', a) = Entry(a, Before(a)'.body)
             /\ Held(secondary', a) = Entry(a, Before(a)'.body)
             /\ a \in Accounts
  <2>1. a \in Within(t) /\ a \in Accounts
    BY DEF Within
  <2>2. CASE t = s
    BY <1>1, <1>6, <2>1, <2>2
  <2>3. CASE t # s
    <3>1. t \in shards \ todo /\ Contains(t, a)
      BY <1>1, <2>1, <2>3 DEF Within
    <3>2. a \notin Within(s)
      BY <1>0, <1>2, <2>1, <2>3, <3>1, ShardsCover DEF Within
    <3> QED
      BY <1>1, <1>3, <1>7, <2>1, <3>1, <3>2
  <2> QED
    BY <2>2, <2>3
<1>9. secondary' \subseteq primary'
  BY <1>1, <1>3
<1>10. ASSUME stored'
       PROVE  /\ secondary' = primary'
              /\ \A t \in shards' : \A a \in Within(t)' : HoldsState(t, a)'
  <2>1. todo' = {}
    BY <1>1, <1>10
  <2>2. \A t \in shards' : stage'[t] = "new"
    BY <1>0, <1>1, <1>2 DEF NodeShape
  <2>3. \A t \in shards' : \A a \in Within(t)' : HoldsState(t, a)'
    BY <1>8, <2>1, <2>2 DEF HoldsState
  <2>4. \A a \in Accounts : Held(primary', a) = Held(secondary', a)
    <3>1. \A a \in Accounts : \E t \in shards : a \in Within(t)
      BY <1>0, ShardsCover DEF Within
    <3>2. \A t : Within(t)' = Within(t)
      BY DEF Within
    <3> QED
      BY <1>1, <1>8, <2>1, <3>1, <3>2
  <2>5. StorageTypeOK'
    BY <1>0, NodeNext DEF NInv, TypeOK, Next
  <2>6. primary' \in SUBSET Index /\ secondary' \in SUBSET Index
    BY <2>5 DEF StorageTypeOK
  <2>7. secondary' = primary'
    BY <2>4, <2>6, SameHeld
  <2> QED
    BY <2>3, <2>7
<1>11. reset'.shard = 0 /\ reset'.keys = {}
  BY <1>1 DEF NoReset
<1> QED
  BY <1>8, <1>9, <1>10, <1>11 DEF IndexShape

LEMMA PersistIndex ==
  ASSUME IInv, NEW s \in Idents, PersistBlock(s)
  PROVE  IndexShape'
<1>0. NInv /\ IndexShape /\ NodeShape /\ stage \in [shards -> Stages]
  BY DEF IInv, NInv, TypeOK
<1>1. /\ node = "blocks" /\ s \in shards /\ stage[s] = "handled"
      /\ stage' = [stage EXCEPT ![s] = "persisted"]
      /\ UpdateIndex(s, path)
      /\ UNCHANGED <<shards, path, node, todo, stored, reset>>
      /\ \A a \in Accounts : Before(a)' = Before(a) /\ After(a)' = After(a)
  BY <1>0, ChainKept DEF PersistBlock, Advance, UpdateIndex, chainVars
<1>2. /\ stored /\ secondary = primary /\ reset.shard = 0 /\ reset.keys = {}
      /\ \A t \in shards : \A a \in Within(t) : HoldsState(t, a)
  BY <1>0, <1>1 DEF NodeShape, IndexShape
<1>3. /\ secondary' = primary'
      /\ \A a \in Accounts :
           Held(primary', a) =
             IF /\ a \in Within(s) /\ Changed(path[a])
                /\ Held(primary, a) # Entry(a, path[a][Len(path[a])])
             THEN Entry(a, path[a][Len(path[a])]) ELSE Held(primary, a)
  BY <1>1, <1>2, UpdateHeld
<1>4. ASSUME NEW t \in shards', NEW a \in Within(t)' PROVE HoldsState(t, a)'
  <2>1. a \in Accounts /\ a \in Within(t) /\ t \in shards
    BY <1>1 DEF Within
  <2>2. HoldsState(t, a)
    BY <1>2, <2>1
  <2>3. /\ After(a).body = path[a][Len(path[a])] /\ Before(a).body = path[a][1]
        /\ path[a] \in Seq(Bodies) /\ Len(path[a]) # 0
    BY <1>0, <2>1, StateFacts DEF After, Before
  <2>4. CASE t = s
    <3>1. CASE Changed(path[a])
      <4>1. Held(primary', a) = Entry(a, path[a][Len(path[a])])
        BY <1>3, <2>1, <2>4, <3>1
      <4> QED
        BY <1>1, <2>1, <2>3, <4>1 DEF HoldsState
    <3>2. CASE ~Changed(path[a])
      <4>1. Entry(a, path[a][1]) = Entry(a, path[a][Len(path[a])])
        BY <2>3, <3>2, Unchanging
      <4>2. Held(primary', a) = Held(primary, a)
        BY <1>3, <2>1, <3>2
      <4>3. Held(primary, a) = Entry(a, After(a).body)
        BY <2>2, <2>3, <4>1 DEF HoldsState
      <4> QED
        BY <1>1, <2>1, <4>2, <4>3 DEF HoldsState
    <3> QED
      BY <3>1, <3>2
  <2>5. CASE t # s
    <3>1. a \notin Within(s)
      BY <1>0, <1>1, <2>1, <2>5, ShardsCover DEF Within
    <3>2. Held(primary', a) = Held(primary, a) /\ stage'[t] = stage[t]
      BY <1>0, <1>1, <1>3, <2>1, <2>5, <3>1
    <3> QED
      BY <1>1, <2>1, <2>2, <3>2 DEF HoldsState
  <2> QED
    BY <2>4, <2>5
<1>5. secondary' \subseteq primary' /\ node' # "states"
  BY <1>1, <1>3
<1> QED
  BY <1>1, <1>2, <1>3, <1>4, <1>5 DEF IndexShape

LEMMA ExitIndex == ASSUME IInv, Exit PROVE IndexShape'
<1>0. NInv /\ IndexShape
  BY DEF IInv
<1>1. /\ UNCHANGED <<primary, secondary, shards, stored>> /\ reset' = NoReset /\ node' = "down"
      /\ stage' = [s \in shards |-> "new"]
      /\ \A a \in Accounts : Before(a)' = Before(a) /\ After(a)' = After(a)
  BY <1>0, ChainKept DEF Exit, StorageCrash
<1>2. ASSUME NEW s \in shards', NEW a \in Within(s)', HoldsState(s, a) PROVE HoldsState(s, a)'
  <2>1. a \in Accounts /\ stage'[s] = "new"
    BY <1>1 DEF Within
  <2> QED
    BY <1>1, <1>2, <2>1 DEF HoldsState
<1>3. reset'.shard = 0 /\ reset'.keys = {}
  BY <1>1 DEF NoReset
<1>4. \A s : Within(s)' = Within(s)
  BY DEF Within
<1> QED
  BY <1>0, <1>1, <1>2, <1>3, <1>4 DEF IndexShape

LEMMA BootIndex == ASSUME IInv, Boot PROVE IndexShape'
<1>0. NInv /\ IndexShape
  BY DEF IInv
<1>1. /\ node = "down" /\ node' = (IF stored THEN "blocks" ELSE "states")
      /\ todo' = (IF stored THEN {} ELSE shards)
      /\ UNCHANGED <<primary, secondary, reset, shards, stored, stage>>
      /\ \A a \in Accounts : Before(a)' = Before(a) /\ After(a)' = After(a)
  BY <1>0, ChainKept DEF Boot, storageVars
<1>2. \A s \in shards : \A a \in Within(s) : a \in Accounts /\ (HoldsState(s, a) => HoldsState(s, a)')
  BY <1>1 DEF HoldsState, Within
<1>3. \A s : Within(s)' = Within(s)
  BY DEF Within
<1>4. stored \in BOOLEAN
  BY <1>0 DEF NInv, TypeOK
<1>5. node' = "states" => shards' \ todo' = {}
  BY <1>1, <1>4
<1>6. \A s \in shards' \ todo' : \A a \in Within(s)' : node' # "states"
  BY <1>5
<1>7. /\ secondary' \subseteq primary' /\ reset'.keys \subseteq primary'
      /\ reset'.shard = 0 => reset'.keys = {}
      /\ \A p \in reset'.keys : p[2] \in Within(reset'.shard)
      /\ reset'.shard # 0 =>
           \A a \in Within(reset'.shard) : /\ Held(secondary', a) = {}
                                            /\ Held(primary', a) \subseteq reset'.keys
  BY <1>0, <1>1, <1>3 DEF IndexShape, Within
<1>8. stored' => /\ secondary' = primary'
                 /\ \A s \in shards' : \A a \in Within(s)' : HoldsState(s, a)'
  BY <1>0, <1>1, <1>2, <1>3 DEF IndexShape
<1> QED
  BY <1>6, <1>7, <1>8 DEF IndexShape, Within

LEMMA IndexNext == ASSUME IInv, [Next]_vars PROVE IInv'
<1>0. NInv' /\ stage \in [shards -> Stages]
  BY NodeNext DEF IInv, NInv, TypeOK
<1> SUFFICES IndexShape'
  BY <1>0 DEF IInv
<1>1. CASE Boot
  BY <1>1, BootIndex
<1>2. ASSUME NEW s \in Idents, FullState(s) PROVE IndexShape'
  BY <1>2, FullStateIndex
<1>3. CASE Delete
  BY <1>3, DeleteIndex
<1>4. CASE FullStateDone
  BY <1>4, FullStateDoneIndex
<1>5. ASSUME NEW s, NEW broken, HandleBlock(s, broken) PROVE IndexShape'
  <2>1. UNCHANGED <<primary, secondary, reset, chainVars, node, todo, stored>>
    BY <1>5 DEF HandleBlock, Advance, storageVars
  <2>2. stage' = [stage EXCEPT ![s] = "handled"]
    BY <1>5 DEF HandleBlock, Advance
  <2> QED
    BY <1>0, <2>1, <2>2, IndexKept
<1>6. ASSUME NEW s \in Idents, PersistBlock(s) PROVE IndexShape'
  BY <1>6, PersistIndex
<1>7. ASSUME NEW s, CacheBlock(s) PROVE IndexShape'
  <2>1. UNCHANGED <<primary, secondary, reset, chainVars, node, todo, stored>>
    BY <1>7 DEF CacheBlock, Advance, UpdateCache
  <2>2. stage[s] = "persisted" /\ stage' = [stage EXCEPT ![s] = "done"]
    BY <1>7 DEF CacheBlock, Advance
  <2> QED
    BY <1>0, <2>1, <2>2, IndexKept
<1>8. CASE MasterchainBlock
  <2>1. UNCHANGED <<primary, secondary, reset, chainVars, node, todo, stored, stage>>
    BY <1>8 DEF MasterchainBlock, storageVars
  <2> QED
    BY <2>1, IndexKept
<1>9. CASE Edge
  BY <1>9, EdgeIndex
<1>10. CASE Synced
  <2>1. UNCHANGED <<primary, secondary, reset, chainVars, node, todo, stored, stage>>
    BY <1>10 DEF Synced, storageVars, nodeVars
  <2> QED
    BY <2>1, IndexKept
<1>11. CASE Crash
  BY <1>11, ExitIndex DEF Crash
<1>12. CASE StartFails
  BY <1>12, ExitIndex DEF StartFails
<1>13. CASE Task
  <2>1. UNCHANGED <<primary, secondary, reset, chainVars, node, todo, stored, stage>>
    BY <1>13, TaskKeeps DEF storageVars, nodeVars
  <2> QED
    BY <2>1, IndexKept
<1>14. CASE UNCHANGED vars
  <2>1. UNCHANGED <<primary, secondary, reset, chainVars, node, todo, stored, stage>>
    BY <1>14 DEF vars, storageVars, nodeVars
  <2> QED
    BY <2>1, IndexKept
<1> QED
  BY <1>1, <1>2, <1>3, <1>4, <1>5, <1>6, <1>7, <1>8, <1>9, <1>10, <1>11, <1>12, <1>13, <1>14,
     NextIs

\* The secondary index never names an entry that the primary lacks, and between
\* blocks both hold the code of every account: of any shards, splits and merges,
\* whatever the index held at first, and wherever the process crashed.
THEOREM IndexCorrect == Spec => []IndexIsTrue
<1>1. Init => IInv
  BY NodeInit, IndexInit DEF IInv
<1>2. IInv /\ [Next]_vars => IInv'
  BY IndexNext
<1>3. IInv => IndexIsTrue
  <2> SUFFICES ASSUME IInv PROVE IndexIsTrue
    OBVIOUS
  <2>1. NInv /\ IndexShape /\ NodeShape
    BY DEF IInv, NInv
  <2>2. ASSUME node = "blocks"
        PROVE  /\ secondary = primary
               /\ \A a \in Accounts : HoldsState(ShardOf(a), a)
    <3>1. secondary = primary /\ \A s \in shards : \A a \in Within(s) : HoldsState(s, a)
      BY <2>1, <2>2 DEF NodeShape, IndexShape
    <3>2. \A a \in Accounts : ShardOf(a) \in shards /\ a \in Within(ShardOf(a))
      BY <2>1, ShardsCover DEF Within
    <3> QED
      BY <3>1, <3>2
  <2>3. secondary \subseteq primary
    BY <2>1 DEF IndexShape
  <2> QED
    BY <2>2, <2>3 DEF IndexIsTrue, HoldsState, Held
<1> QED
  BY <1>1, <1>2, <1>3, PTL DEF Spec

-----------------------------------------------------------------------------
(* The cache, and the start that reads it                                    *)

Done(s) == s \in shards /\ stage[s] = "done"

\* The cache holds the shards of this round's blocks that are done and, of the
\* round before, those that others still follow.
CacheShape ==
  /\ \A s \in DOMAIN cache : s \in was \/ Done(s)
  /\ \A s \in DOMAIN cache : s \notin shards => \E t \in shards : ~Done(t) /\ s \in Prev(t)
  /\ \A s \in shards : Done(s) => s \in DOMAIN cache
  /\ \A s \in DOMAIN cache : \A a \in Within(s) :
       cache[s][a] = IF Done(s) THEN After(a) ELSE Before(a)
  /\ snapshot # {} => \A s \in shards : Done(s) \/ Prev(s) \subseteq DOMAIN cache

\* The start waits for a masterchain block and for one more, so that an edge lies
\* between the first and the end of the second wait.
StartShape ==
  /\ pc \in {"synced", "first", "second", "scan", "done"} => ready
  /\ pc = "first" /\ awaiter = "none" => mc \/ snapshot # {}
  /\ pc = "second" /\ awaiter = "none" => snapshot # {}
  /\ pc = "second" /\ awaiter # "none" => mc \/ snapshot # {}
  /\ pc = "scan" => snapshot # {}

CInv == NInv /\ CacheShape /\ StartShape

LEMMA PrevFacts ==
  ASSUME NInv
  PROVE  /\ \A s : Prev(s) = From(was, s)
         /\ \A s : s \in was => Prev(s) = {s}
         /\ \A s \in shards : Prev(s) \subseteq was
         /\ \A s \in shards \ was :
              /\ Prev(s) \subseteq was \ shards
              /\ \/ \E p \in was : /\ Prev(s) = {p} /\ s \in Split(p)
                                   /\ Split(p) \subseteq shards \ was
                                   /\ \A t \in shards : p \in Prev(t) => t \in Split(p)
                 \/ /\ ~ \E p : Prev(s) = {p}
                    /\ \A t \in shards : t # s => Prev(s) \cap Prev(t) = {}
         /\ \A s \in shards : \A a \in Points :
              Contains(s, a) => \E p \in Prev(s) : Contains(p, a)
<1>1. \A s : Prev(s) = From(was, s)
  BY DEF Prev, From
<1>2. \A s : s \in was => Prev(s) = {s}
  BY DEF Prev
<1>3. \A s \in shards : Prev(s) \subseteq was
  BY DEF Prev
<1>4. Covers(was) /\ Moved(was, shards)
  BY DEF NInv, ChainShape
<1>5. Full \in Powers /\ Full \in Nat
  BY ConstantFacts
<1>6. FromIs(was, shards)
  BY <1>4, <1>5, FromShape
<1> QED
  BY <1>1, <1>2, <1>3, <1>6 DEF FromIs

LEMMA CacheInit == Init => CacheShape /\ StartShape
<1> SUFFICES ASSUME Init PROVE CacheShape /\ StartShape
  OBVIOUS
<1>1. /\ DOMAIN cache = {} /\ snapshot = {} /\ pc = "start"
      /\ stage = [s \in shards |-> "new"]
  BY NoCache DEF Init, StorageInit
<1>2. \A s \in shards : ~Done(s)
  BY <1>1 DEF Done
<1> QED
  BY <1>1, <1>2 DEF CacheShape, StartShape

\* Of an action that leaves the cache alone.
LEMMA CacheKept ==
  ASSUME NInv, CacheShape, UNCHANGED <<cache, snapshot, chainVars>>,
         \A s \in shards : stage'[s] = "done" <=> stage[s] = "done"
  PROVE  CacheShape'
<1>1. /\ UNCHANGED <<cache, snapshot, shards, was>>
      /\ \A a \in Accounts : Before(a)' = Before(a) /\ After(a)' = After(a)
  BY ChainKept DEF chainVars
<1>2. \A s : Done(s)' <=> Done(s)
  BY <1>1 DEF Done
<1>3. \A s : Within(s)' = Within(s) /\ Within(s) \subseteq Accounts
  BY DEF Within
<1>4. \A s : Prev(s)' = Prev(s)
  BY <1>1 DEF Prev
<1> QED
  BY <1>1, <1>2, <1>3, <1>4 DEF CacheShape

LEMMA ExitCache ==
  ASSUME NInv, Exit, pc' \in {"start", "failed"}
  PROVE  CacheShape' /\ StartShape'
<1>1. /\ DOMAIN cache' = {} /\ snapshot' = {} /\ UNCHANGED shards
      /\ stage' = [s \in shards |-> "new"]
  BY NoCache, ChainKept DEF Exit, StorageCrash
<1>2. \A s \in shards' : ~Done(s)'
  BY <1>1 DEF Done
<1> QED
  BY <1>1, <1>2 DEF CacheShape, StartShape

LEMMA EdgeCache == ASSUME CInv, Edge PROVE CacheShape' /\ StartShape'
<1>0. NInv /\ NInv' /\ CacheShape /\ StartShape
  BY EdgeNode DEF CInv
<1>1. /\ \A s \in shards : stage[s] = "done"
      /\ snapshot' = {primary} /\ UNCHANGED <<cache, pc, ready>>
      /\ awaiter' = IF awaiter = "later" THEN "any" ELSE awaiter
  BY DEF Edge, UpdateSnapshot, startVars
<1>2. /\ was' = shards /\ \A s \in shards' : ~Done(s)'
      /\ \A a \in Accounts : Before(a)' = After(a)
  BY <1>0, EdgeFacts DEF Done
<1>3. \A s \in shards : Done(s) /\ s \in DOMAIN cache
  BY <1>0, <1>1 DEF CacheShape, Done
<1>4. DOMAIN cache = shards
  BY <1>0, <1>3 DEF CacheShape
<1>5. \A s \in shards : \A a \in Within(s) : cache[s][a] = After(a)
  BY <1>0, <1>3 DEF CacheShape
<1>6. \A s : Prev(s)' = From(shards, s)
  BY <1>2 DEF Prev, From
<1>7. \A s \in DOMAIN cache' : s \notin shards' => \E t \in shards' : ~Done(t)' /\ s \in Prev(t)'
  <2>1. \A p \in shards \ shards' : \E s \in shards' : p \in From(shards, s)
    BY <1>0, ConstantFacts, EdgeFacts, ShardsCover, FromShape DEF FromIs
  <2> QED
    BY <1>1, <1>2, <1>4, <1>6, <2>1
<1>8. \A s \in shards' : Prev(s)' \subseteq DOMAIN cache'
  <2>1. ASSUME NEW s PROVE From(shards, s) \subseteq shards
    <3>1. CASE s \in shards
      BY <3>1 DEF From
    <3>2. CASE s \notin shards
      BY <3>2 DEF From
    <3> QED
      BY <3>1, <3>2
  <2> QED
    BY <1>1, <1>4, <1>6, <2>1
<1>9. \A s \in DOMAIN cache' : \A a \in Within(s)' : cache'[s][a] = IF Done(s)' THEN After(a)' ELSE Before(a)'
  <2>1. \A s : Within(s)' = Within(s) /\ Within(s) \subseteq Accounts
    BY DEF Within
  <2>2. \A s : ~Done(s)'
    BY <1>2 DEF Done
  <2> QED
    BY <1>1, <1>2, <1>4, <1>5, <2>1, <2>2
<1>10. CacheShape'
  BY <1>1, <1>2, <1>4, <1>7, <1>8, <1>9 DEF CacheShape
<1>11. StartShape'
  BY <1>0, <1>1 DEF StartShape
<1> QED
  BY <1>10, <1>11

\* A shard's block replaces what it follows, and the parent of a split once both
\* halves are there.
LEMMA CacheBlockCache ==
  ASSUME NInv, CacheShape, NEW s \in Idents, CacheBlock(s)
  PROVE  CacheShape'
<1> DEFINE D == DOMAIN cache
           cached == D \cup {s}
           gone == IF Prev(s) = {s} THEN {} ELSE Dropped(Prev(s), cached)
           kept == cached \ gone
           state == [a \in Accounts |-> After(a)]
<1>1. /\ s \in shards /\ stage[s] = "persisted" /\ stage' = [stage EXCEPT ![s] = "done"]
      /\ cache' = [t \in kept |-> IF t = s THEN [a \in Within(s) |-> state[a]] ELSE cache[t]]
      /\ UNCHANGED <<shards, was, snapshot>>
      /\ \A a \in Accounts : Before(a)' = Before(a) /\ After(a)' = After(a)
  BY ChainKept DEF CacheBlock, Advance, UpdateCache, chainVars
<1>2. \A t : Done(t)' <=> Done(t) \/ t = s
  BY <1>1 DEF Done, NInv, TypeOK
<1>3. ~Done(s)
  BY <1>1 DEF Done
<1>4. DOMAIN cache' = kept
  BY <1>1
<1>5. \A t : Within(t)' = Within(t) /\ Within(t) \subseteq Accounts
  BY DEF Within
<1>6. \A t : Prev(t)' = Prev(t)
  BY <1>1 DEF Prev
<1>7. /\ \A t \in D : t \in was \/ Done(t)
      /\ \A t \in D : t \notin shards => \E u \in shards : ~Done(u) /\ t \in Prev(u)
      /\ \A t \in shards : Done(t) => t \in D
      /\ \A t \in D : \A a \in Within(t) : cache[t][a] = IF Done(t) THEN After(a) ELSE Before(a)
      /\ snapshot # {} => \A t \in shards : Done(t) \/ Prev(t) \subseteq D
  BY DEF CacheShape
<1>8. \A t \in kept : \A a \in Within(t) : cache'[t][a] = IF t = s THEN After(a) ELSE cache[t][a]
  BY <1>1, <1>5
<1>9. gone \subseteq Prev(s) /\ (s \notin was => gone = Dropped(Prev(s), cached))
  <2>1. s \notin was => Prev(s) # {s}
    BY PrevFacts, <1>1
  <2> QED
    BY <2>1 DEF Dropped
<1>10. s \in was => gone = {}
  BY PrevFacts
<1> HIDE DEF gone
<1>11. s \notin was => \A t \in gone : t \in was /\ t \notin shards
  BY <1>1, <1>9, PrevFacts
<1>12. s \in kept
  BY <1>1, <1>10, <1>11
<1>13. \A t \in shards : t \in D => t \in kept
  BY <1>10, <1>11
<1>14. ASSUME NEW t \in kept, t \notin shards
       PROVE  \E u \in shards : ~Done(u) /\ u # s /\ t \in Prev(u)
  <2>1. t \in D
    BY <1>1, <1>14
  <2>2. PICK u \in shards : ~Done(u) /\ t \in Prev(u)
    BY <1>7, <1>14, <2>1
  <2>3. CASE u # s
    BY <2>2, <2>3
  <2>4. CASE u = s
    <3>1. s \notin was
      BY <1>14, <2>2, <2>4, PrevFacts, <1>1
    <3>2. t \notin Dropped(Prev(s), cached)
      BY <1>9, <3>1
    <3>3. PICK p \in was : /\ Prev(s) = {p} /\ s \in Split(p)
                           /\ Split(p) \subseteq shards \ was
                           /\ \A v \in shards : p \in Prev(v) => v \in Split(p)
      <4>1. \E p : Prev(s) = {p}
        BY <2>2, <2>4, <3>2 DEF Dropped
      <4> QED
        BY <1>1, <3>1, <4>1, PrevFacts
    <3>4. t = p
      BY <2>2, <2>4, <3>3
    <3>5. ~(Split(p) \subseteq cached)
      BY <3>2, <3>3, <3>4 DEF Dropped
    <3>6. PICK c \in Split(p) : c \notin D /\ c # s
      BY <3>5
    <3>7. c \in shards /\ c \notin was /\ ~Done(c)
      BY <1>7, <3>3, <3>6
    <3>8. p \in Prev(c)
      BY <3>3, <3>6, <3>7 DEF Prev
    <3> QED
      BY <3>4, <3>6, <3>7, <3>8
  <2> QED
    BY <2>3, <2>4
<1>15. ASSUME NEW u \in shards, ~Done(u), u # s, Prev(u) \subseteq D
       PROVE  Prev(u) \subseteq kept
  <2>1. CASE s \in was
    BY <1>10, <1>15, <2>1
  <2>2. CASE s \notin was
    <3>1. CASE ~ \E p : Prev(s) = {p}
      <4>1. Prev(s) \cap Prev(u) = {}
        BY <1>1, <1>15, <2>2, <3>1, PrevFacts
      <4> QED
        BY <1>9, <1>15, <4>1
    <3>2. CASE \E p : Prev(s) = {p}
      <4>1. PICK p \in was : /\ Prev(s) = {p} /\ s \in Split(p)
                             /\ Split(p) \subseteq shards \ was
                             /\ \A v \in shards : p \in Prev(v) => v \in Split(p)
        BY <1>1, <2>2, <3>2, PrevFacts
      <4>2. SUFFICES ASSUME p \in Prev(u), p \in gone PROVE FALSE
        BY <1>9, <1>15, <4>1
      <4>3. u \in Split(p) /\ u \notin was
        BY <1>15, <4>1, <4>2
      <4>4. Split(p) \subseteq cached
        BY <1>9, <2>2, <4>1, <4>2 DEF Dropped
      <4>5. u \in D
        BY <1>15, <4>3, <4>4
      <4> QED
        BY <1>7, <1>15, <4>3, <4>5
    <3> QED
      BY <3>1, <3>2
  <2> QED
    BY <2>1, <2>2
<1>16. \A t \in kept : t \in was \/ Done(t)'
  BY <1>2, <1>7
<1>17. \A t \in kept : t \notin shards => \E u \in shards : ~Done(u)' /\ t \in Prev(u)'
  BY <1>2, <1>6, <1>14
<1>18. \A t \in shards : Done(t)' => t \in kept
  BY <1>2, <1>7, <1>12, <1>13
<1>19. \A t \in kept : \A a \in Within(t) : cache'[t][a] = IF Done(t)' THEN After(a)' ELSE Before(a)'
  <2>1. \A t \in kept : t # s => t \in D
    OBVIOUS
  <2> HIDE DEF kept, D
  <2> QED
    BY <1>1, <1>2, <1>5, <1>7, <1>8, <2>1
<1>20. snapshot # {} => \A t \in shards : Done(t)' \/ Prev(t)' \subseteq kept
  BY <1>2, <1>6, <1>7, <1>15
<1> QED
  BY <1>1, <1>4, <1>5, <1>16, <1>17, <1>18, <1>19, <1>20 DEF CacheShape

\* The tasks of the start.
LEMMA TaskStart == ASSUME CInv, Task PROVE StartShape'
<1>0. StartShape /\ UNCHANGED <<mc, snapshot>>
  BY TaskKeeps DEF CInv, nodeVars, storageVars
<1> USE DEF StartStep, TaskStep
<1>1. CASE TestReady
  BY <1>0, <1>1 DEF TestReady, AfterTest, StartShape, subscriberVars
<1>2. CASE Park
  BY <1>0, <1>2 DEF Park, StartShape, subscriberVars
<1>3. CASE WaitNow
  BY <1>0, <1>3 DEF WaitNow, Await, StartShape
<1>4. CASE ReadConfigurations
  BY <1>0, <1>4 DEF ReadConfigurations, Await, StartShape
<1>5. CASE LoadSnapshot
  BY <1>0, <1>5 DEF LoadSnapshot, StartShape, subscriberVars
<1>6. CASE \E a \in Accounts : ScanAccount(a)
  BY <1>0, <1>6 DEF ScanAccount, StartShape, subscriberVars
<1>7. CASE \E w \in Waiters : Take(w) \/ \E m \in Modes : Ask(w, m)
  <2>1. UNCHANGED <<pc, ready, awaiter>>
    BY <1>7 DEF Take, Ask, TakeState, AskState, startVars
  <2> QED
    BY <1>0, <2>1 DEF StartShape
<1>8. CASE \E o \in Observers : StartObserving(o) \/ StopObserving(o)
  <2>1. UNCHANGED <<pc, ready, awaiter>>
    BY <1>8 DEF StartObserving, StopObserving, Observe, DropObserver, startVars
  <2> QED
    BY <1>0, <2>1 DEF StartShape
<1> QED
  BY <1>1, <1>2, <1>3, <1>4, <1>5, <1>6, <1>7, <1>8 DEF Task

LEMMA CacheNext == ASSUME CInv, [Next]_vars PROVE CInv'
<1>0. NInv /\ CacheShape /\ StartShape /\ NInv' /\ stage \in [shards -> Stages]
  BY NodeNext DEF CInv, NInv, TypeOK
<1>s. ASSUME UNCHANGED <<pc, ready, awaiter, mc, snapshot>> PROVE StartShape'
  BY <1>0, <1>s DEF StartShape
<1> SUFFICES CacheShape' /\ StartShape'
  BY <1>0 DEF CInv
<1>1. CASE Boot
  <2>1. UNCHANGED <<cache, snapshot, chainVars, stage>> /\ pc' = "start"
    BY <1>1 DEF Boot, storageVars
  <2>2. CacheShape'
    BY <1>0, <2>1, CacheKept
  <2> QED
    BY <2>1, <2>2 DEF StartShape
<1>2. CASE \E s \in Idents : FullState(s)
  <2>1. UNCHANGED <<cache, snapshot, chainVars, stage, mc, pc, ready, awaiter>>
    BY <1>2 DEF FullState, BeginReset, subscriberVars, nodeVars, startVars
  <2> QED
    BY <1>0, <1>s, <2>1, CacheKept
<1>3. CASE Delete
  <2>1. UNCHANGED <<cache, snapshot, chainVars, stage, mc, pc, ready, awaiter>>
    BY <1>3 DEF Delete, DeleteKey, subscriberVars, nodeVars, startVars
  <2> QED
    BY <1>0, <1>s, <2>1, CacheKept
<1>4. CASE FullStateDone
  <2>1. UNCHANGED <<cache, snapshot, chainVars, stage, mc, pc, ready, awaiter>>
    BY <1>4 DEF FullStateDone, WriteState, subscriberVars, nodeVars, startVars
  <2> QED
    BY <1>0, <1>s, <2>1, CacheKept
<1>5. ASSUME NEW s, NEW broken, HandleBlock(s, broken) PROVE CacheShape' /\ StartShape'
  <2>1. UNCHANGED <<cache, snapshot, chainVars, mc, pc, ready, awaiter>>
    BY <1>5 DEF HandleBlock, Advance, HandleShardBlock, storageVars, subscriberVars, startVars
  <2>2. stage[s] = "new" /\ stage' = [stage EXCEPT ![s] = "handled"]
    BY <1>5 DEF HandleBlock, Advance
  <2> QED
    BY <1>0, <1>s, <2>1, <2>2, CacheKept
<1>6. ASSUME NEW s, PersistBlock(s) PROVE CacheShape' /\ StartShape'
  <2>1. UNCHANGED <<cache, snapshot, chainVars, mc, pc, ready, awaiter>>
    BY <1>6 DEF PersistBlock, Advance, UpdateIndex, subscriberVars, startVars
  <2>2. stage[s] = "handled" /\ stage' = [stage EXCEPT ![s] = "persisted"]
    BY <1>6 DEF PersistBlock, Advance
  <2> QED
    BY <1>0, <1>s, <2>1, <2>2, CacheKept
<1>7. ASSUME NEW s \in Idents, CacheBlock(s) PROVE CacheShape' /\ StartShape'
  <2>1. UNCHANGED <<snapshot, mc, pc, ready, awaiter>>
    BY <1>7 DEF CacheBlock, Advance, UpdateCache, subscriberVars, startVars
  <2> QED
    BY <1>0, <1>7, <1>s, <2>1, CacheBlockCache
<1>8. CASE MasterchainBlock
  <2>1. /\ UNCHANGED <<cache, snapshot, chainVars, stage, pc, ready>>
        /\ mc' = TRUE /\ ~mc
        /\ awaiter' = awaiter \/ awaiter' = "none"
    BY <1>8 DEF MasterchainBlock, HandleMasterchainBlock, storageVars, startVars
  <2>2. CacheShape'
    BY <1>0, <2>1, CacheKept
  <2> QED
    BY <1>0, <2>1, <2>2 DEF StartShape
<1>9. CASE Edge
  BY <1>9, EdgeCache
<1>10. CASE Synced
  <2>1. /\ UNCHANGED <<cache, snapshot, chainVars, stage, awaiter, mc>>
        /\ ready' = TRUE /\ pc' = IF pc = "parked" THEN "synced" ELSE pc
    BY <1>10 DEF Synced, storageVars, nodeVars
  <2>2. CacheShape'
    BY <1>0, <2>1, CacheKept
  <2> QED
    BY <1>0, <2>1, <2>2 DEF StartShape
<1>11. CASE Crash
  BY <1>0, <1>11, ExitCache DEF Crash
<1>12. CASE StartFails
  BY <1>0, <1>12, ExitCache DEF StartFails
<1>13. CASE Task
  <2>1. UNCHANGED <<cache, snapshot, chainVars, stage>>
    BY <1>13, TaskKeeps DEF storageVars, nodeVars
  <2> QED
    BY <1>0, <1>13, <2>1, CacheKept, TaskStart
<1>14. CASE UNCHANGED vars
  <2>1. UNCHANGED <<cache, snapshot, chainVars, stage, mc, pc, ready, awaiter>>
    BY <1>14 DEF vars, storageVars, subscriberVars, nodeVars, startVars
  <2> QED
    BY <1>0, <1>s, <2>1, CacheKept
<1> QED
  BY <1>1, <1>2, <1>3, <1>4, <1>5, <1>6, <1>7, <1>8, <1>9, <1>10, <1>11, <1>12, <1>13, <1>14,
     NextIs

\* The cache holds every shard of the chain or, until its block is handled, what it
\* was made from, and nothing else; and the start does not read it before that.
THEOREM CacheInvariant == Spec => []CInv
<1>1. Init => CInv
  BY NodeInit, CacheInit DEF CInv
<1>2. CInv /\ [Next]_vars => CInv'
  BY CacheNext
<1> QED
  BY <1>1, <1>2, PTL DEF Spec

\* What the cache has to say of an account once there is a snapshot.
LEMMA ReadsFresh ==
  ASSUME CInv, snapshot # {}, NEW a \in Accounts
  PROVE  Readable(a) # {} /\ Readable(a) \subseteq {Before(a), After(a)}
<1>0. NInv /\ CacheShape
  BY DEF CInv
<1> DEFINE s == ShardOf(a)
<1>1. a \in Points /\ s \in shards /\ Contains(s, a)
  BY <1>0, ShardsCover
<1>2. \E t \in DOMAIN cache : Contains(t, a)
  <2>1. CASE Done(s)
    BY <1>0, <1>1, <2>1 DEF CacheShape
  <2>2. CASE ~Done(s)
    <3>1. Prev(s) \subseteq DOMAIN cache
      BY <1>0, <1>1, <2>2 DEF CacheShape
    <3>2. \E p \in Prev(s) : Contains(p, a)
      BY <1>0, <1>1, PrevFacts
    <3> QED
      BY <3>1, <3>2
  <2> QED
    BY <2>1, <2>2
<1>3. \A t \in DOMAIN cache : Contains(t, a) => cache[t][a] \in {Before(a), After(a)}
  <2>1. \A t : Contains(t, a) => a \in Within(t)
    BY DEF Within
  <2> QED
    BY <1>0, <2>1 DEF CacheShape
<1> QED
  BY <1>2, <1>3 DEF Readable

\* Whenever the startup scan reads, the cache holds every account, in its state
\* before or after the block of this round and in no older one, whatever splits
\* and merges the round brings.
THEOREM ScanCorrect == Spec => []ScanIsFresh
<1>1. CInv => ScanIsFresh
  <2> SUFFICES ASSUME CInv, pc = "scan", NEW a \in Accounts
               PROVE  Readable(a) # {} /\ Readable(a) \subseteq {Before(a), After(a)}
    BY DEF ScanIsFresh
  <2>1. snapshot # {}
    BY DEF CInv, StartShape
  <2> QED
    BY <2>1, ReadsFresh
<1> QED
  BY <1>1, CacheInvariant, PTL

\* The start fails only in the scan, of an account that does not exist before or
\* after the block of this round.
THEOREM FailuresCorrect == Spec => FailsOnlyOnRemoval
<1> DEFINE Removed == /\ pc = "scan"
                      /\ \E a \in toScan : "none" \in {Before(a).body, After(a).body}
           A == pc # "failed" /\ pc' = "failed" => Removed
<1>1. CInv /\ [Next]_vars => [A]_vars
  <2> SUFFICES ASSUME CInv, [Next]_vars, pc # "failed", pc' = "failed" PROVE Removed
    BY DEF vars, startVars
  <2>0. NInv /\ CacheShape /\ StartShape /\ toScan \subseteq Accounts
    BY DEF CInv, NInv, TypeOK
  <2>1. StartFails
    <3>1. CASE Boot \/ Delete \/ FullStateDone \/ MasterchainBlock \/ Edge \/ Synced \/ Crash
      BY <3>1 DEF Boot, Delete, FullStateDone, MasterchainBlock, Edge, Synced, Crash, startVars
    <3>2. CASE Task
      <4>1. CASE TestReady \/ Park \/ WaitNow \/ ReadConfigurations
        BY <4>1 DEF TestReady, AfterTest, Park, WaitNow, ReadConfigurations, Await
      <4>2. CASE LoadSnapshot \/ \E a \in Accounts : ScanAccount(a)
        BY <4>2 DEF LoadSnapshot, ScanAccount
      <4>3. CASE \E w \in Waiters : Take(w) \/ \E m \in Modes : Ask(w, m)
        BY <4>3 DEF Take, Ask, TaskStep, startVars
      <4>4. CASE \E o \in Observers : StartObserving(o) \/ StopObserving(o)
        BY <4>4 DEF StartObserving, StopObserving, TaskStep, startVars
      <4> QED
        BY <3>2, <4>1, <4>2, <4>3, <4>4 DEF Task
    <3>3. ASSUME NEW s, FullState(s) \/ PersistBlock(s) \/ CacheBlock(s)
                        \/ \E broken \in SUBSET Within(s) : HandleBlock(s, broken)
          PROVE  FALSE
      BY <3>3 DEF FullState, PersistBlock, CacheBlock, HandleBlock, Advance, startVars
    <3>4. CASE UNCHANGED vars
      BY <3>4 DEF vars, startVars
    <3> QED
      BY <3>1, <3>2, <3>3, <3>4, NextIs
  <2>2. pc = "scan" /\ \E a \in toScan : Readable(a) = {} \/ \E state \in Readable(a) : ~Exists(state)
    BY <2>0, <2>1 DEF StartFails, StartShape
  <2>3. snapshot # {}
    BY <2>0, <2>2 DEF StartShape
  <2>4. PICK a \in toScan : Readable(a) = {} \/ \E state \in Readable(a) : ~Exists(state)
    BY <2>2
  <2>5. Readable(a) # {} /\ Readable(a) \subseteq {Before(a), After(a)}
    BY <2>0, <2>3, ReadsFresh
  <2>6. PICK state \in {Before(a), After(a)} : ~Exists(state)
    BY <2>4, <2>5
  <2> QED
    BY <2>2, <2>4, <2>6 DEF Exists
<1>2. Spec => [][A]_vars
  BY <1>1, CacheInvariant, PTL DEF Spec
<1> QED
  BY <1>2 DEF FailsOnlyOnRemoval

-----------------------------------------------------------------------------
(* Subscriptions                                                             *)

\* Nothing is subscribed to before the node is ready; a receiver and an observer
\* keep the entry they are of; and as long as every account could be loaded, the
\* channel of an entry that is yet to be seen holds the newest state.
SubShape ==
  /\ ~ready => /\ \A a \in Accounts : subs[a] = NoSub
               /\ \A w \in Waiters : waiter[w] = "idle"
               /\ alive = {}
  /\ \A w \in Waiters : waiter[w] # "idle" => subs[Target[w]].kept
  /\ \A o \in alive : /\ subs[Target[o]].kept /\ o \in subs[Target[o]].observers
                      /\ heard[o] = Handled(Target[o]).ver
  /\ failures = 0 =>
       /\ \A w \in Waiters :
            waiter[w] = "unseen" => subs[Target[w]].value = Handled(Target[w])
       /\ \A a \in Accounts : subs[a].unseen => subs[a].value = Handled(a)

SInv == CInv /\ SubShape

LEMMA NoSubIs ==
  /\ ~NoSub.kept /\ ~NoSub.unseen /\ NewSub.kept /\ ~NewSub.unseen
  /\ NoSub.observers = {} /\ NewSub.observers = {}
  BY DEF NoSub, NewSub

LEMMA SubInit == Init => SubShape
<1> SUFFICES ASSUME Init PROVE SubShape
  OBVIOUS
<1>1. /\ \A a \in Accounts : subs[a] = NoSub
      /\ \A w \in Waiters : waiter[w] = "idle"
      /\ alive = {}
  BY DEF Init, SubscriberInit
<1>2. \A a \in Accounts : ~subs[a].unseen
  BY <1>1, NoSubIs
<1>3. \A w \in Waiters : waiter[w] # "unseen"
  BY <1>1
<1> QED
  BY <1>1, <1>2, <1>3 DEF SubShape

LEMMA HandledKept ==
  ASSUME NInv, UNCHANGED chainVars,
         \A s \in shards : stage'[s] = "new" <=> stage[s] = "new"
  PROVE  \A a \in Accounts : Handled(a)' = Handled(a)
<1>1. ASSUME NEW a \in Accounts PROVE Handled(a)' = Handled(a)
  <2>1. ShardOf(a) \in shards
    BY ShardsCover
  <2>2. Before(a)' = Before(a) /\ After(a)' = After(a) /\ ShardOf(a)' = ShardOf(a)
    BY ChainKept
  <2> QED
    BY <2>1, <2>2 DEF Handled
<1> QED
  BY <1>1

LEMMA SubKept ==
  ASSUME SubShape, SubscriberTypeOK, ready => ready', UNCHANGED <<subs, waiter, alive, heard, failures>>,
         \A a \in Accounts : Handled(a)' = Handled(a)
  PROVE  SubShape'
<1>1. \A x \in Waiters \cup Observers : Target[x] \in Accounts
  BY ConstantFacts
<1>2. alive \subseteq Observers
  BY DEF SubscriberTypeOK
<1>3. \A o \in alive : heard'[o] = Handled(Target[o])'.ver
  BY <1>1, <1>2 DEF SubShape
<1>4. failures' = 0 =>
       /\ \A w \in Waiters :
            waiter'[w] = "unseen" => subs'[Target[w]].value = Handled(Target[w])'
       /\ \A a \in Accounts : subs'[a].unseen => subs'[a].value = Handled(a)'
  BY <1>1 DEF SubShape
<1> QED
  BY <1>3, <1>4 DEF SubShape

LEMMA ExitSub == ASSUME Exit PROVE SubShape'
<1>1. /\ subs' = [a \in Accounts |-> NoSub] /\ waiter' = [w \in Waiters |-> "idle"]
      /\ alive' = {}
  BY DEF Exit, SubscriberCrash
<1>2. /\ \A a \in Accounts : subs'[a] = NoSub /\ ~subs'[a].unseen
      /\ \A w \in Waiters : waiter'[w] = "idle"
  BY <1>1, NoSubIs
<1> QED
  BY <1>1, <1>2 DEF SubShape

LEMMA EdgeSub == ASSUME SInv, Edge PROVE SubShape'
<1>0. NInv /\ NInv' /\ SubShape /\ SubscriberTypeOK
  BY EdgeNode DEF SInv, CInv, NInv, TypeOK
<1>1. /\ \A s \in shards : stage[s] = "done"
      /\ UNCHANGED <<ready, subs, waiter, alive, heard, failures>>
  BY DEF Edge
<1>2. ASSUME NEW a \in Accounts PROVE Handled(a)' = Handled(a)
  <2>1. Handled(a) = After(a)
    BY <1>0, <1>1, ShardsCover DEF Handled
  <2>2. ShardOf(a)' \in shards'
    <3>1. Covers(shards') /\ a \in Points
      BY <1>0, EdgeFacts, ConstantFacts
    <3> QED
      BY <3>1, HolderIs DEF ShardOf
  <2>3. Handled(a)' = Before(a)'
    BY <1>0, <2>2, EdgeFacts DEF Handled
  <2> QED
    BY <1>0, <2>1, <2>3, EdgeFacts
<1> QED
  BY <1>0, <1>1, <1>2, SubKept

LEMMA AskSub ==
  ASSUME SubShape, SubscriberTypeOK, ready, NEW w \in Waiters, NEW m, AskState(w, m),
         failures' = failures, \A a \in Accounts : Handled(a)' = Handled(a)
  PROVE  SubShape'
<1> DEFINE a == Target[w]
<1>0. /\ \A x \in Waiters \cup Observers : Target[x] \in Accounts
      /\ alive \subseteq Observers
  BY ConstantFacts DEF SubscriberTypeOK
<1>1. /\ subs' = [subs EXCEPT ![a] = Opened(a)]
      /\ waiter' = [waiter EXCEPT ![w] = IF Opened(a).unseen THEN "unseen" ELSE "seen"]
      /\ UNCHANGED <<ready, alive, heard>>
  BY DEF AskState
<1>2. a \in Accounts
  BY <1>0
<1>3. /\ subs[a].kept => Opened(a) = subs[a]
      /\ ~subs[a].kept => Opened(a) = NewSub
      /\ Opened(a).kept
  BY NoSubIs DEF Opened
<1> HIDE DEF a
<1>4. /\ subs'[a] = Opened(a) /\ \A b \in Accounts : b # a => subs'[b] = subs[b]
      /\ \A v \in Waiters : v # w => waiter'[v] = waiter[v]
      /\ waiter'[w] = IF Opened(a).unseen THEN "unseen" ELSE "seen"
  BY <1>1, <1>2 DEF SubscriberTypeOK
<1>5. \A b \in Accounts : subs[b].kept => subs'[b] = subs[b]
  BY <1>3, <1>4
<1>6. \A v \in Waiters : waiter'[v] # "idle" => subs'[Target[v]].kept
  <2>1. \A v \in Waiters : v # w => (waiter'[v] # "idle" => subs'[Target[v]].kept)
    BY <1>0, <1>4, <1>5 DEF SubShape
  <2> QED
    BY <1>3, <1>4, <2>1 DEF a
<1>7. \A o \in alive : /\ subs'[Target[o]].kept /\ o \in subs'[Target[o]].observers
                       /\ heard'[o] = Handled(Target[o])'.ver
  BY <1>0, <1>1, <1>5 DEF SubShape
<1>8. ASSUME failures = 0
      PROVE  /\ \A v \in Waiters :
                  waiter'[v] = "unseen" => subs'[Target[v]].value = Handled(Target[v])'
             /\ \A b \in Accounts : subs'[b].unseen => subs'[b].value = Handled(b)'
  <2>1. ASSUME NEW b \in Accounts, subs'[b].unseen PROVE subs'[b].value = Handled(b)'
    <3>1. subs'[b] = subs[b]
      BY <1>3, <1>4, <2>1, NoSubIs
    <3> QED
      BY <1>8, <2>1, <3>1 DEF SubShape
  <2>2. ASSUME NEW v \in Waiters, waiter'[v] = "unseen"
        PROVE  subs'[Target[v]].value = Handled(Target[v])'
    <3>1. CASE v = w
      BY <1>2, <1>4, <2>1, <2>2, <3>1 DEF a
    <3>2. CASE v # w
      BY <1>0, <1>4, <1>5, <1>8, <2>2, <3>2 DEF SubShape
    <3> QED
      BY <3>1, <3>2
  <2> QED
    BY <2>1, <2>2
<1> QED
  BY <1>1, <1>6, <1>7, <1>8 DEF SubShape

LEMMA ObserveSub ==
  ASSUME SubShape, SubscriberTypeOK, ready, NEW o \in Observers,
         Observe(o, Handled(Target[o]).ver),
         failures' = failures, \A a \in Accounts : Handled(a)' = Handled(a)
  PROVE  SubShape'
<1> DEFINE a == Target[o]
           new == [Opened(a) EXCEPT !.observers = @ \cup {o}]
<1>0. /\ \A x \in Waiters \cup Observers : Target[x] \in Accounts
      /\ alive \subseteq Observers
  BY ConstantFacts DEF SubscriberTypeOK
<1>1. /\ subs' = [subs EXCEPT ![a] = new]
      /\ heard' = [heard EXCEPT ![o] = Handled(a).ver]
      /\ alive' = alive \cup {o}
      /\ UNCHANGED <<ready, waiter>>
  BY DEF Observe
<1>2. a \in Accounts
  BY <1>0
<1>3. /\ subs[a].kept => Opened(a) = subs[a]
      /\ ~subs[a].kept => Opened(a) = NewSub
      /\ Opened(a).kept /\ Opened(a) \in Subscription
  BY <1>2, NoSubIs, OpenedType DEF Opened
<1>4. /\ new.kept /\ new.observers = Opened(a).observers \cup {o}
      /\ new.value = Opened(a).value /\ new.unseen = Opened(a).unseen
  BY <1>3 DEF Subscription
<1> HIDE DEF a, new
<1>5. /\ subs'[a] = new /\ \A b \in Accounts : b # a => subs'[b] = subs[b]
      /\ \A p \in Observers : p # o => heard'[p] = heard[p]
      /\ heard'[o] = Handled(a).ver
  BY <1>1, <1>2 DEF SubscriberTypeOK
<1>6. \A b \in Accounts : subs[b].kept => /\ subs'[b].kept /\ subs'[b].value = subs[b].value
                                          /\ subs[b].observers \subseteq subs'[b].observers
                                          /\ subs'[b].unseen = subs[b].unseen
  BY <1>3, <1>4, <1>5
<1>7. \A v \in Waiters : waiter'[v] # "idle" => subs'[Target[v]].kept
  BY <1>0, <1>1, <1>6 DEF SubShape
<1>8. \A p \in alive' : /\ subs'[Target[p]].kept /\ p \in subs'[Target[p]].observers
                        /\ heard'[p] = Handled(Target[p])'.ver
  <2>1. \A p \in alive : p # o => /\ subs'[Target[p]].kept /\ p \in subs'[Target[p]].observers
                                  /\ heard'[p] = Handled(Target[p])'.ver
    BY <1>0, <1>5, <1>6 DEF SubShape
  <2>2. /\ subs'[Target[o]].kept /\ o \in subs'[Target[o]].observers
        /\ heard'[o] = Handled(Target[o])'.ver
    BY <1>2, <1>4, <1>5 DEF a
  <2> QED
    BY <1>1, <2>1, <2>2
<1>9. ASSUME failures = 0
      PROVE  /\ \A v \in Waiters :
                  waiter'[v] = "unseen" => subs'[Target[v]].value = Handled(Target[v])'
             /\ \A b \in Accounts : subs'[b].unseen => subs'[b].value = Handled(b)'
  <2>1. ASSUME NEW b \in Accounts, subs'[b].unseen PROVE subs'[b].value = Handled(b)'
    <3>1. CASE b = a
      <4>1. Opened(a).unseen
        BY <1>4, <1>5, <2>1, <3>1
      <4>2. Opened(a) = subs[a]
        BY <1>3, <4>1, NoSubIs
      <4> QED
        BY <1>2, <1>4, <1>5, <1>9, <3>1, <4>1, <4>2 DEF SubShape
    <3>2. CASE b # a
      BY <1>5, <1>9, <2>1, <3>2 DEF SubShape
    <3> QED
      BY <3>1, <3>2
  <2>2. ASSUME NEW v \in Waiters, waiter'[v] = "unseen"
        PROVE  subs'[Target[v]].value = Handled(Target[v])'
    BY <1>0, <1>1, <1>6, <1>9, <2>2 DEF SubShape
  <2> QED
    BY <2>1, <2>2
<1> QED
  BY <1>1, <1>7, <1>8, <1>9 DEF SubShape

\* A shard's block brings to each of its entries what it leaves of the account.
LEMMA HandleSub ==
  ASSUME SInv, NEW s \in Idents, NEW broken \in SUBSET Within(s), HandleBlock(s, broken), ready
  PROVE  SubShape'
<1>0. /\ NInv /\ SubShape /\ SubscriberTypeOK /\ failures \in Nat
      /\ stage \in [shards -> Stages] /\ heard \in [Observers -> Nat] /\ alive \subseteq Observers
      /\ \A x \in Waiters \cup Observers : Target[x] \in Accounts
  BY ConstantFacts DEF SInv, CInv, NInv, TypeOK, SubscriberTypeOK
<1> DEFINE state == [a \in Accounts |-> After(a)]
           n == [a \in Accounts |-> Len(path[a]) - 1]
           Sub(a) == IF ~subs[a].kept \/ Status(a) = "Stopped" THEN NoSub
                     ELSE IF Contains(s, a) THEN Refreshed(a, state[a], a \notin broken)
                     ELSE [subs[a] EXCEPT !.observers = @ \cap alive]
<1>1. /\ s \in shards /\ stage[s] = "new" /\ stage' = [stage EXCEPT ![s] = "handled"]
      /\ UNCHANGED chainVars
      /\ HandleShardBlock(s, state, n, broken)
      /\ failures' = failures + Cardinality(broken)
  BY DEF HandleBlock, Advance
<1>2. /\ subs' = [a \in Accounts |-> Sub(a)]
      /\ waiter' = [w \in Waiters |->
            IF waiter[w] # "idle" /\ Contains(s, Target[w]) /\ Target[w] \notin broken
            THEN "unseen" ELSE waiter[w]]
      /\ heard' = [o \in Observers |->
            IF Contains(s, Target[o]) /\ o \in alive \cap subs'[Target[o]].observers
            THEN heard[o] + n[Target[o]] ELSE heard[o]]
      /\ UNCHANGED <<ready, alive>>
  BY <1>1 DEF HandleShardBlock
<1>3. ASSUME NEW a \in Accounts
      PROVE  /\ Contains(s, a) => /\ Handled(a) = Before(a) /\ Handled(a)' = After(a)
                                  /\ After(a).ver = Before(a).ver + n[a]
             /\ ~Contains(s, a) => Handled(a)' = Handled(a)
  <2>1. /\ ShardOf(a) \in shards /\ Contains(ShardOf(a), a)
        /\ \A t \in shards : Contains(t, a) => t = ShardOf(a)
    BY <1>0, ShardsCover
  <2>2. Before(a)' = Before(a) /\ After(a)' = After(a) /\ ShardOf(a)' = ShardOf(a)
    BY <1>0, <1>1, ChainKept
  <2>3. After(a).ver = Before(a).ver + n[a]
    BY <1>0, StateFacts
  <2>4. CASE Contains(s, a)
    BY <1>0, <1>1, <2>1, <2>2, <2>3, <2>4 DEF Handled
  <2>5. CASE ~Contains(s, a)
    BY <1>0, <1>1, <2>1, <2>2, <2>5 DEF Handled
  <2> QED
    BY <2>4, <2>5
<1>4. \A a \in Accounts : state[a] = After(a) /\ state[a] \in State /\ n[a] \in Nat
  BY <1>0, StateFacts
<1> HIDE DEF state, n
<1>5. ASSUME NEW a \in Accounts, subs[a].kept, Status(a) # "Stopped"
      PROVE  /\ subs'[a].kept /\ subs'[a].observers = subs[a].observers \cap alive
             /\ Contains(s, a) =>
                  /\ subs'[a].value
                       = (IF Receivers(a) # {} /\ a \notin broken THEN After(a) ELSE subs[a].value)
                  /\ subs'[a].unseen = (Receivers(a) # {} /\ (a \notin broken \/ subs[a].unseen))
             /\ ~Contains(s, a) => /\ subs'[a].value = subs[a].value
                                   /\ subs'[a].unseen = subs[a].unseen
  <2>1. subs'[a] = Sub(a)
    BY <1>2
  <2>2. CASE Contains(s, a)
    <3>1. subs'[a] = Refreshed(a, state[a], a \notin broken)
      BY <1>5, <2>1, <2>2
    <3> DEFINE loaded == a \notin broken
               st == state[a]
    <3>2. loaded \in BOOLEAN /\ st \in State /\ st = After(a)
      BY <1>4
    <3>3. subs'[a] = Refreshed(a, st, loaded) /\ (loaded <=> a \notin broken)
      BY <3>1
    <3> HIDE DEF loaded, st
    <3>r. /\ Refreshed(a, st, loaded).kept = subs[a].kept
          /\ Refreshed(a, st, loaded).observers = subs[a].observers \cap alive
          /\ Refreshed(a, st, loaded).value
               = (IF Receivers(a) # {} /\ loaded THEN st ELSE subs[a].value)
          /\ Refreshed(a, st, loaded).unseen = (Receivers(a) # {} /\ (loaded \/ subs[a].unseen))
      BY <1>0, <3>2, RefreshedType
    <3>4. /\ subs'[a].kept = subs[a].kept /\ subs'[a].observers = subs[a].observers \cap alive
          /\ subs'[a].value = (IF Receivers(a) # {} /\ loaded THEN After(a) ELSE subs[a].value)
          /\ subs'[a].unseen = (Receivers(a) # {} /\ (loaded \/ subs[a].unseen))
      BY <3>2, <3>3, <3>r
    <3> QED
      BY <1>5, <2>2, <3>3, <3>4
  <2>3. CASE ~Contains(s, a)
    <3>1. subs'[a] = [subs[a] EXCEPT !.observers = @ \cap alive]
      BY <1>5, <2>1, <2>3
    <3>2. subs[a] \in Subscription
      BY <1>0 DEF SubscriberTypeOK
    <3> QED
      BY <1>5, <2>3, <3>1, <3>2 DEF Subscription
  <2> QED
    BY <2>2, <2>3
<1>6. ASSUME NEW a \in Accounts, ~subs[a].kept \/ Status(a) = "Stopped"
      PROVE  ~subs'[a].unseen
  <2>1. subs'[a] = Sub(a)
    BY <1>2
  <2>2. Sub(a) = NoSub
    BY <1>6
  <2> HIDE DEF Sub
  <2> QED
    BY <2>1, <2>2, NoSubIs
<1> HIDE DEF Sub
<1>7. \A w \in Waiters : waiter[w] # "idle" => /\ subs[Target[w]].kept
                                               /\ Receivers(Target[w]) # {}
                                               /\ Status(Target[w]) # "Stopped"
  BY <1>0 DEF SubShape, Receivers, Status
<1>8. \A o \in alive : /\ subs[Target[o]].kept /\ Status(Target[o]) # "Stopped"
                       /\ o \in subs[Target[o]].observers
                       /\ heard[o] = Handled(Target[o]).ver
  BY <1>0 DEF SubShape, Status
<1>9. \A w \in Waiters : waiter'[w] # "idle" => waiter[w] # "idle" /\ subs'[Target[w]].kept
  BY <1>0, <1>2, <1>5, <1>7
<1>10. ASSUME NEW o \in alive'
       PROVE  /\ subs'[Target[o]].kept /\ o \in subs'[Target[o]].observers
              /\ heard'[o] = Handled(Target[o])'.ver
  <2>1. o \in alive /\ o \in Observers /\ Target[o] \in Accounts
    BY <1>0, <1>2
  <2>2. subs'[Target[o]].kept /\ o \in subs'[Target[o]].observers
    BY <1>5, <1>8, <2>1
  <2>3. heard'[o] = IF Contains(s, Target[o]) THEN heard[o] + n[Target[o]] ELSE heard[o]
    BY <1>2, <2>1, <2>2
  <2>4. heard[o] = Handled(Target[o]).ver
    BY <1>8, <2>1
  <2> QED
    BY <1>3, <2>1, <2>2, <2>3, <2>4
<1>11. ASSUME failures' = 0
       PROVE  /\ \A w \in Waiters :
                   waiter'[w] = "unseen" => subs'[Target[w]].value = Handled(Target[w])'
              /\ \A a \in Accounts : subs'[a].unseen => subs'[a].value = Handled(a)'
  <2>1. failures = 0 /\ broken = {}
    BY <1>0, <1>1, <1>11, Failed
  <2>2. ASSUME NEW a \in Accounts, subs'[a].unseen PROVE subs'[a].value = Handled(a)'
    <3>1. subs[a].kept /\ Status(a) # "Stopped"
      BY <1>6, <2>2
    <3>2. CASE Contains(s, a)
      BY <1>3, <1>5, <2>1, <2>2, <3>1, <3>2
    <3>3. CASE ~Contains(s, a)
      BY <1>0, <1>3, <1>5, <2>1, <2>2, <3>1, <3>3 DEF SubShape
    <3> QED
      BY <3>2, <3>3
  <2>3. ASSUME NEW w \in Waiters, waiter'[w] = "unseen"
        PROVE  subs'[Target[w]].value = Handled(Target[w])'
    <3>1. /\ Target[w] \in Accounts /\ waiter[w] # "idle"
          /\ subs[Target[w]].kept /\ Status(Target[w]) # "Stopped" /\ Receivers(Target[w]) # {}
      BY <1>0, <1>7, <1>9, <2>3
    <3>2. CASE Contains(s, Target[w])
      BY <1>3, <1>5, <2>1, <3>1, <3>2
    <3>3. CASE ~Contains(s, Target[w])
      <4>1. waiter[w] = "unseen"
        BY <1>2, <2>3, <3>3
      <4> QED
        BY <1>0, <1>3, <1>5, <2>1, <3>1, <3>3, <4>1 DEF SubShape
    <3> QED
      BY <3>2, <3>3
  <2> QED
    BY <2>2, <2>3
<1> QED
  BY <1>2, <1>9, <1>10, <1>11 DEF SubShape

LEMMA TaskSub == ASSUME SInv, Task PROVE SubShape'
<1>0. /\ NInv /\ SubShape /\ SubscriberTypeOK /\ StartShape
      /\ UNCHANGED <<chainVars, stage, failures>>
  BY TaskKeeps DEF SInv, CInv, NInv, TypeOK, nodeVars
<1>1. \A a \in Accounts : Handled(a)' = Handled(a)
  BY <1>0, HandledKept
<1>2. TaskStep => ready
  BY <1>0 DEF TaskStep, Up, StartShape
<1>3. CASE UNCHANGED <<ready, subs, waiter, alive, heard>>
  BY <1>0, <1>1, <1>3, SubKept
<1>4. CASE TestReady \/ Park \/ WaitNow \/ ReadConfigurations \/ LoadSnapshot
  BY <1>3, <1>4 DEF TestReady, Park, WaitNow, ReadConfigurations, LoadSnapshot, Await, subscriberVars
<1>5. CASE \E a \in Accounts : ScanAccount(a)
  BY <1>3, <1>5 DEF ScanAccount, subscriberVars
<1>6. ASSUME NEW w \in Waiters, Take(w) PROVE SubShape'
  <2>1. /\ UNCHANGED <<ready, subs, alive, heard>> /\ ready
        /\ waiter[w] = "unseen"
        /\ \E to \in {"idle", "seen"} : waiter' = [waiter EXCEPT ![w] = to]
    BY <1>2, <1>6 DEF Take, TakeState
  <2>2. \A v \in Waiters : /\ waiter'[v] # "idle" => waiter[v] # "idle"
                           /\ waiter'[v] = "unseen" => waiter[v] = "unseen"
    BY <1>0, <2>1 DEF SubscriberTypeOK
  <2>3. \A x \in Waiters \cup Observers : Target[x] \in Accounts
    BY ConstantFacts
  <2>4. alive \subseteq Observers
    BY <1>0 DEF SubscriberTypeOK
  <2>5. /\ \A v \in Waiters : waiter'[v] # "idle" => subs'[Target[v]].kept
        /\ \A o \in alive' : /\ subs'[Target[o]].kept /\ o \in subs'[Target[o]].observers
                             /\ heard'[o] = Handled(Target[o])'.ver
    BY <1>0, <1>1, <2>1, <2>2, <2>3, <2>4 DEF SubShape
  <2>6. failures' = 0 =>
       /\ \A v \in Waiters :
            waiter'[v] = "unseen" => subs'[Target[v]].value = Handled(Target[v])'
       /\ \A a \in Accounts : subs'[a].unseen => subs'[a].value = Handled(a)'
    BY <1>0, <1>1, <2>1, <2>2, <2>3 DEF SubShape
  <2> QED
    BY <2>1, <2>5, <2>6 DEF SubShape
<1>7. ASSUME NEW w \in Waiters, NEW m, Ask(w, m) PROVE SubShape'
  BY <1>0, <1>1, <1>2, <1>7, AskSub DEF Ask
<1>8. ASSUME NEW o \in Observers, StartObserving(o) PROVE SubShape'
  BY <1>0, <1>1, <1>2, <1>8, ObserveSub DEF StartObserving
<1>9. ASSUME NEW o \in Observers, StopObserving(o) PROVE SubShape'
  <2>1. /\ UNCHANGED <<ready, subs, waiter>> /\ ready /\ alive' = alive \ {o}
        /\ heard' = [heard EXCEPT ![o] = 0]
    BY <1>2, <1>9 DEF StopObserving, DropObserver
  <2>2. /\ \A x \in Waiters \cup Observers : Target[x] \in Accounts
        /\ alive \subseteq Observers /\ heard \in [Observers -> Nat]
    BY <1>0, ConstantFacts DEF SubscriberTypeOK
  <2>3. \A p \in alive' : p \in alive /\ heard'[p] = heard[p]
    BY <2>1, <2>2
  <2>4. \A p \in alive' : /\ subs'[Target[p]].kept /\ p \in subs'[Target[p]].observers
                          /\ heard'[p] = Handled(Target[p])'.ver
    BY <1>0, <1>1, <2>1, <2>2, <2>3 DEF SubShape
  <2>5. failures' = 0 =>
       /\ \A v \in Waiters :
            waiter'[v] = "unseen" => subs'[Target[v]].value = Handled(Target[v])'
       /\ \A a \in Accounts : subs'[a].unseen => subs'[a].value = Handled(a)'
    BY <1>0, <1>1, <2>1, <2>2 DEF SubShape
  <2>6. \A v \in Waiters : waiter'[v] # "idle" => subs'[Target[v]].kept
    BY <1>0, <2>1 DEF SubShape
  <2> QED
    BY <2>1, <2>4, <2>5, <2>6 DEF SubShape
<1> QED
  BY <1>4, <1>5, <1>6, <1>7, <1>8, <1>9 DEF Task

LEMMA SubNext == ASSUME SInv, [Next]_vars PROVE SInv'
<1>0. /\ CInv' /\ NInv /\ SubShape /\ SubscriberTypeOK /\ stage \in [shards -> Stages]
  BY CacheNext DEF SInv, CInv, NInv, TypeOK
<1> SUFFICES SubShape'
  BY <1>0 DEF SInv
<1>k. ASSUME ready => ready', UNCHANGED <<subs, waiter, alive, heard, failures, chainVars>>,
             \A s \in shards : stage'[s] = "new" <=> stage[s] = "new"
      PROVE  SubShape'
  BY <1>0, <1>k, HandledKept, SubKept
<1>1. CASE Boot \/ Delete \/ FullStateDone \/ MasterchainBlock \/ Synced \/ UNCHANGED vars
  <2>1. /\ ready => ready'
        /\ UNCHANGED <<subs, waiter, alive, heard, failures, chainVars, stage>>
    BY <1>1 DEF Boot, Delete, FullStateDone, MasterchainBlock, HandleMasterchainBlock, Synced,
                vars, subscriberVars, nodeVars
  <2> QED
    BY <1>k, <2>1
<1>2. ASSUME NEW s, FullState(s) PROVE SubShape'
  BY <1>2, <1>k DEF FullState, subscriberVars, nodeVars
<1>3. ASSUME NEW s, PersistBlock(s) \/ CacheBlock(s) PROVE SubShape'
  <2>1. /\ UNCHANGED <<ready, subs, waiter, alive, heard, failures, chainVars>>
        /\ stage[s] # "new" /\ \E to \in {"persisted", "done"} : stage' = [stage EXCEPT ![s] = to]
    BY <1>3 DEF PersistBlock, CacheBlock, Advance, subscriberVars
  <2> QED
    BY <1>0, <1>k, <2>1
<1>4. ASSUME NEW s \in Idents, NEW broken \in SUBSET Within(s), HandleBlock(s, broken)
      PROVE  SubShape'
  <2>1. CASE ready
    BY <1>4, <2>1, HandleSub
  <2>2. CASE ~ready
    <3>1. UNCHANGED <<ready, subs, waiter, alive, heard>>
      BY <1>4, <2>2 DEF HandleBlock, subscriberVars
    <3>2. /\ \A a \in Accounts : subs'[a] = NoSub /\ ~subs'[a].unseen
          /\ \A w \in Waiters : waiter'[w] = "idle"
          /\ alive' = {}
      BY <1>0, <2>2, <3>1, NoSubIs DEF SubShape
    <3> QED
      BY <3>2 DEF SubShape
  <2> QED
    BY <2>1, <2>2
<1>5. CASE Edge
  BY <1>5, EdgeSub
<1>6. CASE Crash \/ StartFails
  BY <1>6, ExitSub DEF Crash, StartFails
<1>7. CASE Task
  BY <1>7, TaskSub
<1> QED
  BY <1>1, <1>2, <1>3, <1>4, <1>5, <1>6, <1>7, NextIs

\* Subscriptions live as long as somebody waits or observes, and publish the state
\* of the last block while somebody waits.
THEOREM SubscriptionInvariant == Spec => []SInv
<1>1. Init => SInv
  BY NodeInit, CacheInit, SubInit DEF SInv, CInv
<1>2. SInv /\ [Next]_vars => SInv'
  BY SubNext
<1> QED
  BY <1>1, <1>2, PTL DEF Spec

\* As long as every account could be loaded, a state that a task is about to be
\* given is that of the last block of the account's shard, for any tasks that ask
\* for any accounts.
THEOREM StatesCorrect == Spec => []StatesAreCurrent
<1>1. SInv => StatesAreCurrent
  BY DEF SInv, SubShape, StatesAreCurrent
<1> QED
  BY <1>1, SubscriptionInvariant, PTL

\* An observer that is alive has been told of every transaction of its account,
\* for any observers of any accounts.
THEOREM ObserversCorrect == Spec => []ObserverHearsAll
<1>1. SInv => ObserverHearsAll
  BY DEF SInv, SubShape, ObserverHearsAll
<1> QED
  BY <1>1, SubscriptionInvariant, PTL
================================================================================
