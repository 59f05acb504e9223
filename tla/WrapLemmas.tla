---------------------------- MODULE WrapLemmas -------------------------------
(***************************************************************************)
(* Arithmetic of an index that wraps: the MCDI sequence number and the     *)
(* ring indices of the driver and the user library, for every modulus.     *)
(***************************************************************************)
EXTENDS Integers, TLAPS

\* Division with remainder.
LEMMA DivMod ==
  ASSUME NEW S \in Nat \ {0}, NEW a \in Nat
  PROVE  a = S * (a \div S) + (a % S) /\ a % S \in 0..S-1 /\ a \div S \in Nat
OBVIOUS

\* Two multiples less than one modulus apart are in order.
LEMMA Quotients ==
  ASSUME NEW S \in Nat \ {0}, NEW x \in Int, NEW y \in Int,
         S * x - S * y < S
  PROVE  x <= y
<1> SUFFICES ASSUME x - y >= 1 PROVE FALSE
  OBVIOUS
<1>1. S * (x - y) >= S
  OBVIOUS
<1>2. S * (x - y) = S * x - S * y
  OBVIOUS
<1>3. QED
  BY <1>1, <1>2

\* The remainder is unique.
LEMMA ModIs ==
  ASSUME NEW S \in Nat \ {0}, NEW q \in Int, NEW r \in 0..S-1,
         NEW x \in Nat
  PROVE  x = S * q + r => x % S = r
<1> DEFINE p == x \div S
           m == x % S
           sq == S * q
           sp == S * p
<1>1. p \in Int /\ x = S * p + m /\ m \in 0..S-1
  BY DivMod
<1> HIDE DEF p, m
<1> HAVE x = S * q + r
<1>2. sq \in Int /\ sp \in Int /\ sq + r = sp + m
  BY <1>1
<1>3. sq - sp < S /\ sp - sq < S
  <2> HIDE DEF sq, sp
  <2> QED
    BY <1>1, <1>2
<1>4. p = q
  BY <1>1, <1>3, Quotients
<1>5. sq = sp
  BY <1>4
<1>6. m = r
  <2> HIDE DEF sq, sp
  <2> QED
    BY <1>1, <1>2, <1>5
<1>7. QED
  BY <1>6 DEF m

\* Numbers less than one modulus apart have different remainders.
LEMMA ModUnique ==
  ASSUME NEW S \in Nat \ {0}, NEW a \in Nat, NEW b \in Nat,
         a <= b, b - a < S, a % S = b % S
  PROVE  a = b
<1> DEFINE qa == a \div S
           qb == b \div S
           m  == a % S
           sa == S * qa
           sb == S * qb
<1>1. /\ qa \in Int /\ qb \in Int /\ m \in Int
      /\ a = S * qa + m /\ b = S * qb + m
  BY DivMod
<1> HIDE DEF qa, qb, m
<1>2. sa \in Int /\ sb \in Int /\ a = sa + m /\ b = sb + m
  BY <1>1
<1>3. sb - sa < S /\ sa - sb < S
  <2> HIDE DEF sa, sb
  <2> QED
    BY <1>1, <1>2
<1>4. qa = qb
  BY <1>1, <1>3, Quotients
<1>5. QED
  BY <1>1, <1>4

\* The counter of exec, masked at every step, is the masked count.
LEMMA ModSucc ==
  ASSUME NEW S \in Nat \ {0}, NEW a \in Nat
  PROVE  ((a % S) + 1) % S = (a + 1) % S
<1> DEFINE q == a \div S
           r == a % S
<1>1. q \in Nat /\ r \in 0..S-1 /\ a = S * q + r
  BY DivMod
<1> HIDE DEF q, r
<1>2. CASE r + 1 < S
  <2>1. (r + 1) % S = r + 1
    BY <1>1, <1>2
  <2>2. a + 1 = S * q + (r + 1) /\ r + 1 \in 0..S-1
    BY <1>1, <1>2
  <2>3. (a + 1) % S = r + 1
    BY <1>1, <2>2, ModIs
  <2>4. QED
    BY <2>1, <2>3 DEF r
<1>3. CASE r + 1 = S
  <2>1. a + 1 = S * (q + 1) + 0
    BY <1>1, <1>3
  <2>2. (a + 1) % S = 0
    BY <1>1, <2>1, ModIs
  <2>3. S = S * 1 + 0 /\ 0 \in 0..S-1
    OBVIOUS
  <2>4. S % S = 0
    BY <2>3, ModIs
  <2>5. QED
    BY <1>3, <2>2, <2>4 DEF r
<1>4. QED
  BY <1>1, <1>2, <1>3

-----------------------------------------------------------------------------
(* Ring indices.                                                           *)

\* The next index of a ring of S slots, and how far b is ahead of a.
After(S, a) == (a + 1) % S
Gap(S, a, b) == (b - a) % S

\* The next index.
LEMMA AfterIs ==
  ASSUME NEW S \in Nat \ {0}, NEW a \in 0..S-1
  PROVE  After(S, a) = (IF a = S - 1 THEN 0 ELSE a + 1) /\ After(S, a) \in 0..S-1
<1>1. CASE a = S - 1
  <2>1. S = S * 1 + 0 /\ 0 \in 0..S-1
    OBVIOUS
  <2>2. QED
    BY <1>1, <2>1, ModIs DEF After
<1>2. CASE a # S - 1
  BY <1>2 DEF After
<1>3. QED
  BY <1>1, <1>2

\* How far one index is ahead of another.
LEMMA GapIs ==
  ASSUME NEW S \in Nat \ {0}, NEW a \in 0..S-1, NEW b \in 0..S-1
  PROVE  Gap(S, a, b) = (IF a <= b THEN b - a ELSE b - a + S) /\ Gap(S, a, b) \in 0..S-1
<1>1. CASE a <= b
  BY <1>1 DEF Gap
<1>2. CASE a > b
  <2>1. b - a = S * (-1) + (b - a + S) /\ b - a + S \in 0..S-1
    BY <1>2
  <2>2. QED
    BY <1>2, <2>1 DEF Gap
<1>3. QED
  BY <1>1, <1>2

\* Different indices have different successors.
LEMMA AfterInj ==
  ASSUME NEW S \in Nat \ {0}, NEW a \in 0..S-1, NEW b \in 0..S-1, After(S, a) = After(S, b)
  PROVE  a = b
<1> DEFINE x == After(S, a)
           y == After(S, b)
<1>1. x = (IF a = S - 1 THEN 0 ELSE a + 1) /\ y = (IF b = S - 1 THEN 0 ELSE b + 1) /\ x = y
  BY AfterIs
<1> HIDE DEF x, y
<1>2. QED
  BY <1>1

\* Only an index itself is at no distance.
LEMMA GapZero ==
  ASSUME NEW S \in Nat \ {0}, NEW a \in 0..S-1, NEW b \in 0..S-1
  PROVE  Gap(S, a, b) \in 0..S-1 /\ (Gap(S, a, b) = 0 <=> a = b)
<1> DEFINE g == Gap(S, a, b)
<1>1. g = (IF a <= b THEN b - a ELSE b - a + S) /\ g \in 0..S-1
  BY GapIs
<1> HIDE DEF g
<1>2. g = 0 <=> a = b
  BY <1>1
<1>3. QED
  BY <1>1, <1>2 DEF g

\* The index j slots further on.
LEMMA Forward ==
  ASSUME NEW S \in Nat \ {0}, NEW a \in 0..S-1, NEW j \in 0..S-1
  PROVE  (a + j) % S \in 0..S-1 /\ Gap(S, a, (a + j) % S) = j
<1> DEFINE b == (a + j) % S
           g == Gap(S, a, b)
<1>1. b = (IF a + j < S THEN a + j ELSE a + j - S)
  <2>1. CASE a + j < S
    BY <2>1
  <2>2. CASE a + j >= S
    <3>1. a + j = S * 1 + (a + j - S) /\ a + j - S \in 0..S-1
      BY <2>2
    <3>2. QED
      BY <2>2, <3>1, ModIs
  <2>3. QED
    BY <2>1, <2>2
<1>2. b \in 0..S-1
  <2> HIDE DEF b
  <2> QED
    BY <1>1
<1> HIDE DEF b
<1>3. g = IF a <= b THEN b - a ELSE b - a + S
  BY <1>2, GapIs
<1> HIDE DEF g
<1>4. g = j
  BY <1>1, <1>3
<1>5. QED
  BY <1>2, <1>4 DEF b, g

\* The reader at r passes a slot that is not the writer's: it leaves the unread
\* part [r, w), and the other slots stay where they were.
LEMMA ReadShrinks ==
  ASSUME NEW S \in Nat \ {0}, NEW r \in 0..S-1, NEW w \in 0..S-1, NEW i \in 0..S-1,
         r # w
  PROVE  /\ i # r /\ Gap(S, r, i) < Gap(S, r, w)
                <=> Gap(S, After(S, r), i) < Gap(S, After(S, r), w)
         /\ Gap(S, After(S, r), w) = Gap(S, r, w) - 1
<1> DEFINE a == After(S, r)
           ri == Gap(S, r, i)
           rw == Gap(S, r, w)
           ai == Gap(S, a, i)
           aw == Gap(S, a, w)
<1>1. a = (IF r = S - 1 THEN 0 ELSE r + 1) /\ a \in 0..S-1
  BY AfterIs
<1>2. /\ ri = (IF r <= i THEN i - r ELSE i - r + S)
      /\ rw = (IF r <= w THEN w - r ELSE w - r + S)
  BY GapIs
<1> HIDE DEF a
<1>3. /\ ai = (IF a <= i THEN i - a ELSE i - a + S)
      /\ aw = (IF a <= w THEN w - a ELSE w - a + S)
  BY <1>1, GapIs
<1> HIDE DEF ri, rw, ai, aw
<1>4. (i # r /\ ri < rw <=> ai < aw) /\ aw = rw - 1
  BY <1>1, <1>2, <1>3
<1>5. QED
  BY <1>4 DEF a, ri, rw, ai, aw

\* The writer at w fills its slot and moves on, short of the reader.
LEMMA WriteGrows ==
  ASSUME NEW S \in Nat \ {0}, NEW r \in 0..S-1, NEW w \in 0..S-1, NEW i \in 0..S-1,
         After(S, w) # r
  PROVE  /\ i = w \/ Gap(S, r, i) < Gap(S, r, w)
                <=> Gap(S, r, i) < Gap(S, r, After(S, w))
         /\ Gap(S, r, After(S, w)) = Gap(S, r, w) + 1
<1> DEFINE a == After(S, w)
           ri == Gap(S, r, i)
           rw == Gap(S, r, w)
           ra == Gap(S, r, a)
<1>1. a = (IF w = S - 1 THEN 0 ELSE w + 1) /\ a \in 0..S-1 /\ a # r
  BY AfterIs
<1>2. /\ ri = (IF r <= i THEN i - r ELSE i - r + S)
      /\ rw = (IF r <= w THEN w - r ELSE w - r + S)
  BY GapIs
<1> HIDE DEF a
<1>3. ra = (IF r <= a THEN a - r ELSE a - r + S)
  BY <1>1, GapIs
<1> HIDE DEF ri, rw, ra
<1>4. (i = w \/ ri < rw <=> ri < ra) /\ ra = rw + 1
  BY <1>1, <1>2, <1>3
<1>5. QED
  BY <1>4 DEF a, ri, rw, ra

\* A reader between the acknowledged index c and the writer may advance up to
\* the writer.
LEMMA ReadBetween ==
  ASSUME NEW S \in Nat \ {0}, NEW c \in 0..S-1, NEW r \in 0..S-1, NEW w \in 0..S-1,
         Gap(S, c, r) <= Gap(S, c, w), r # w
  PROVE  /\ Gap(S, c, After(S, r)) = Gap(S, c, r) + 1
         /\ Gap(S, c, After(S, r)) <= Gap(S, c, w)
<1> DEFINE a == After(S, r)
           cr == Gap(S, c, r)
           cw == Gap(S, c, w)
           ca == Gap(S, c, a)
<1>1. a = (IF r = S - 1 THEN 0 ELSE r + 1) /\ a \in 0..S-1
  BY AfterIs
<1>2. /\ cr = (IF c <= r THEN r - c ELSE r - c + S)
      /\ cw = (IF c <= w THEN w - c ELSE w - c + S) /\ cr <= cw
  BY GapIs
<1> HIDE DEF a
<1>3. ca = (IF c <= a THEN a - c ELSE a - c + S)
  BY <1>1, GapIs
<1> HIDE DEF cr, cw, ca
<1>4. ca = cr + 1 /\ ca <= cw
  BY <1>1, <1>2, <1>3
<1>5. QED
  BY <1>4 DEF a, cr, cw, ca

\* A writer that stops short of the acknowledged index stops short of the reader.
LEMMA WriteBetween ==
  ASSUME NEW S \in Nat \ {0}, NEW c \in 0..S-1, NEW r \in 0..S-1, NEW w \in 0..S-1,
         Gap(S, c, r) <= Gap(S, c, w), After(S, w) # c
  PROVE  After(S, w) # r /\ Gap(S, c, r) <= Gap(S, c, After(S, w))
<1> DEFINE a == After(S, w)
           cr == Gap(S, c, r)
           cw == Gap(S, c, w)
           ca == Gap(S, c, a)
<1>1. a = (IF w = S - 1 THEN 0 ELSE w + 1) /\ a \in 0..S-1 /\ a # c
  BY AfterIs
<1>2. /\ cr = (IF c <= r THEN r - c ELSE r - c + S)
      /\ cw = (IF c <= w THEN w - c ELSE w - c + S) /\ cr <= cw
  BY GapIs
<1> HIDE DEF a
<1>3. ca = (IF c <= a THEN a - c ELSE a - c + S)
  BY <1>1, GapIs
<1> HIDE DEF cr, cw, ca
<1>4. a # r /\ cr <= ca
  BY <1>1, <1>2, <1>3
<1>5. QED
  BY <1>4 DEF a, cr, ca

\* Different indices are at different distances.
LEMMA GapInj ==
  ASSUME NEW S \in Nat \ {0}, NEW a \in 0..S-1, NEW b \in 0..S-1, NEW c \in 0..S-1,
         Gap(S, a, b) = Gap(S, a, c)
  PROVE  b = c
<1> DEFINE x == Gap(S, a, b)
           y == Gap(S, a, c)
<1>1. /\ x = (IF a <= b THEN b - a ELSE b - a + S)
      /\ y = (IF a <= c THEN c - a ELSE c - a + S) /\ x = y
  BY GapIs
<1> HIDE DEF x, y
<1>2. QED
  BY <1>1

\* A ring whose doorbell p is one behind its head h has three parts: [h, c), which
\* is full, [c, p), which is posted, and p.
LEMMA RingParts ==
  ASSUME NEW S \in Nat \ {0}, NEW h \in 0..S-1, NEW c \in 0..S-1, NEW p \in 0..S-1,
         NEW s \in 0..S-1, After(S, p) = h
  PROVE  /\ Gap(S, c, s) < Gap(S, c, p) <=> s # p /\ ~(Gap(S, h, s) < Gap(S, h, c))
         /\ ~(Gap(S, h, p) < Gap(S, h, c))
<1> DEFINE cs == Gap(S, c, s)
           cp == Gap(S, c, p)
           hs == Gap(S, h, s)
           hc == Gap(S, h, c)
           hp == Gap(S, h, p)
<1>1. h = IF p = S - 1 THEN 0 ELSE p + 1
  BY AfterIs
<1>2. /\ cs = (IF c <= s THEN s - c ELSE s - c + S)
      /\ cp = (IF c <= p THEN p - c ELSE p - c + S)
      /\ hs = (IF h <= s THEN s - h ELSE s - h + S)
      /\ hc = (IF h <= c THEN c - h ELSE c - h + S)
      /\ hp = (IF h <= p THEN p - h ELSE p - h + S)
  BY GapIs
<1> HIDE DEF cs, cp, hs, hc, hp
<1>3. (cs < cp <=> s # p /\ ~(hs < hc)) /\ ~(hp < hc)
  BY <1>1, <1>2
<1>4. QED
  BY <1>3 DEF cs, cp, hs, hc, hp
=============================================================================
