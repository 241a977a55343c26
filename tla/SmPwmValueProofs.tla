------------------------- MODULE SmPwmValueProofs ---------------------------
(***************************************************************************)
(* What the dust sensor computes, for every sample time, weight and buffer *)
(* length: its arithmetic stays in 16 bits, its occupancy is exact, how    *)
(* far the scaled curve is from the unscaled one, its average has no       *)
(* overshoot and rests in a band below constant air, and its circular      *)
(* buffer is a sliding window of the samples.                              *)
(***************************************************************************)
EXTENDS SteadyAir, CircBuf, SequenceTheorems, TLAPS

\* Two remainders that differ by a multiple of k are the same.
LEMMA SameRemainder ==
  ASSUME NEW k \in Nat \ {0}, NEW r \in 0 .. k - 1, NEW s \in 0 .. k - 1,
         NEW q \in Int, r - s = k * q
  PROVE  r = s
<1>1. CASE q = 0
  BY <1>1
<1>2. CASE q >= 1
  <2>1. k * q >= k
    BY <1>2
  <2> QED BY <2>1
<1>3. CASE q <= -1
  <2>1. k * q <= -k
    BY <1>3
  <2> QED BY <2>1
<1> QED BY <1>1, <1>2, <1>3

\* A remainder is the number it is taken of, less a multiple of k.
LEMMA Remainder ==
  ASSUME NEW k \in Nat \ {0}, NEW n \in Int
  PROVE  /\ n % k \in Nat /\ n % k < k
         /\ n \div k \in Int /\ n = k * (n \div k) + (n % k)
OBVIOUS

\* A number below the modulus is its own remainder.
LEMMA Small ==
  ASSUME NEW k \in Nat \ {0}, NEW n \in Nat, n < k
  PROVE  n % k = n
<1> DEFINE q == n \div k
           r == n % k
<1>1. r \in 0 .. k - 1 /\ q \in Int /\ n = k * q + r
  BY Remainder
<1> HIDE DEF q, r
<1>2. n - r = k * q
  BY <1>1
<1>3. n = r
  BY <1>1, <1>2, SameRemainder
<1> QED BY <1>3 DEF r

\* A term of a sum may be reduced before the sum is.
LEMMA ReduceTerm ==
  ASSUME NEW k \in Nat \ {0}, NEW m \in Int, NEW n \in Int
  PROVE  ((m % k) + n) % k = (m + n) % k
<1> DEFINE a == m \div k
           x == m % k
           xn == x + n
<1>1. x \in 0 .. k - 1 /\ a \in Int /\ m = k * a + x
  BY Remainder
<1>2. x \in Int
  BY <1>1
<1> HIDE DEF a, x
<1>3. xn \in Int /\ m + n \in Int
  BY <1>2
<1>sum. xn = x + n
  OBVIOUS
<1> HIDE DEF xn
<1> DEFINE b == xn \div k
           y == xn % k
           c == (m + n) \div k
           z == (m + n) % k
<1>4. y \in 0 .. k - 1 /\ b \in Int /\ xn = k * b + y
  BY <1>3, Remainder
<1>5. z \in 0 .. k - 1 /\ c \in Int /\ m + n = k * c + z
  BY <1>3, Remainder
<1> HIDE DEF b, y, c, z
<1>6. y - z = k * c - k * a - k * b
  BY <1>1, <1>2, <1>sum, <1>4, <1>5
<1>7. k * c - k * a - k * b = k * (c - a - b) /\ c - a - b \in Int
  BY <1>1, <1>4, <1>5
<1>8. y = z
  BY <1>4, <1>5, <1>6, <1>7, SameRemainder
<1> QED BY <1>8 DEF x, xn, y, z

\* Stepping around an array of k slots: one lap at most.
LEMMA Around ==
  ASSUME NEW n \in Nat, NEW k \in Nat \ {0}, n < k + k
  PROVE  n % k = IF n < k THEN n ELSE n - k
<1> DEFINE q == n \div k
           r == n % k
<1>1. q \in Int /\ r \in 0 .. k - 1 /\ n = k * q + r
  OBVIOUS
<1> HIDE DEF q, r
<1>2. q < 2
  <2> SUFFICES ASSUME q >= 2 PROVE FALSE
    BY <1>1
  <2>1. k * q >= k * 2
    BY <1>1
  <2> QED BY <1>1, <2>1
<1>3. q >= 0
  <2> SUFFICES ASSUME q <= -1 PROVE FALSE
    BY <1>1
  <2>1. k * q <= k * (-1)
    BY <1>1
  <2> QED BY <1>1, <2>1
<1>4. q = 0 \/ q = 1
  BY <1>1, <1>2, <1>3
<1>5. CASE q = 0
  BY <1>1, <1>5 DEF r
<1>6. CASE q = 1
  BY <1>1, <1>6 DEF r
<1> QED BY <1>4, <1>5, <1>6

-----------------------------------------------------------------------------
(* The circular buffer.                                                    *)

\* A push keeps the array and its head in bounds.
LEMMA PushIsBuf ==
  ASSUME NEW b \in CircBufs, NEW d \in Samples
  PROVE  /\ Push(b, d) \in CircBufs
         /\ Push(b, d).buf = [b.buf EXCEPT ![b.head] = d]
         /\ Push(b, d).head = IF b.head = BufferLen - 1 THEN 0 ELSE b.head + 1
<1>1. b.head \in Slots /\ b.buf \in [Slots -> Samples]
  BY DEF CircBufs
<1>2. (b.head + 1) % BufferLen = IF b.head + 1 < BufferLen THEN b.head + 1 ELSE b.head + 1 - BufferLen
  <2> DEFINE n == b.head + 1
  <2>1. n \in Nat /\ n < BufferLen + BufferLen
    BY <1>1, BufferLenIsPositive DEF Slots
  <2> HIDE DEF n
  <2>2. n % BufferLen = IF n < BufferLen THEN n ELSE n - BufferLen
    BY <2>1, BufferLenIsPositive, Around
  <2> QED BY <1>1, <2>2, BufferLenIsPositive DEF n, Slots
<1>3. (b.head + 1) % BufferLen = IF b.head = BufferLen - 1 THEN 0 ELSE b.head + 1
  BY <1>1, <1>2, BufferLenIsPositive DEF Slots
<1>4. (b.head + 1) % BufferLen \in Slots
  BY <1>1, <1>3, BufferLenIsPositive DEF Slots
<1>5. [b.buf EXCEPT ![b.head] = d] \in [Slots -> Samples]
  BY <1>1
<1> QED BY <1>3, <1>4, <1>5 DEF Push, CircBufs

\* The samples of a buffer, by the slot they are in.
LEMMA WindowSlot ==
  ASSUME NEW b \in CircBufs, NEW i \in 1 .. BufferLen
  PROVE  LET j == b.head + i - 1 IN
         Window(b)[i] = b.buf[IF j < BufferLen THEN j ELSE j - BufferLen]
<1> DEFINE j == b.head + i - 1
<1>1. b.head \in Slots
  BY DEF CircBufs
<1>2. j \in Nat /\ j < BufferLen + BufferLen
  BY <1>1, BufferLenIsPositive DEF Slots
<1>3. j % BufferLen = IF j < BufferLen THEN j ELSE j - BufferLen
  BY <1>2, BufferLenIsPositive, Around
<1> QED BY <1>3 DEF Window

\* A window is a sequence of samples as long as the buffer.
LEMMA WindowIsSeq ==
  ASSUME NEW b \in CircBufs
  PROVE  Window(b) \in Seq(Samples) /\ Len(Window(b)) = BufferLen
<1>1. \A i \in 1 .. BufferLen : Window(b)[i] \in Samples
  <2> SUFFICES ASSUME NEW i \in 1 .. BufferLen PROVE Window(b)[i] \in Samples
    OBVIOUS
  <2> DEFINE j == b.head + i - 1
  <2>1. b.head \in Slots /\ b.buf \in [Slots -> Samples]
    BY DEF CircBufs
  <2>2. (IF j < BufferLen THEN j ELSE j - BufferLen) \in Slots
    BY <2>1, BufferLenIsPositive DEF Slots
  <2>3. Window(b)[i] = b.buf[IF j < BufferLen THEN j ELSE j - BufferLen]
    BY WindowSlot
  <2> QED BY <2>1, <2>2, <2>3
<1>2. Window(b) \in [1 .. BufferLen -> Samples]
  BY <1>1 DEF Window
<1> QED BY <1>2, BufferLenIsPositive

\* _circ_buf_push replaces the oldest sample of the window by the new one.
THEOREM PushSlides ==
  ASSUME NEW b \in CircBufs, NEW d \in Samples
  PROVE  Window(Push(b, d)) = Append(Tail(Window(b)), d)
<1> DEFINE c == Push(b, d)
           w == Window(b)
           v == Window(c)
<1>1. b.head \in Slots /\ b.buf \in [Slots -> Samples]
  BY DEF CircBufs
<1>2. /\ c \in CircBufs
      /\ c.buf = [b.buf EXCEPT ![b.head] = d]
      /\ c.head = IF b.head = BufferLen - 1 THEN 0 ELSE b.head + 1
  BY PushIsBuf
<1>3. /\ w \in Seq(Samples) /\ Len(w) = BufferLen
      /\ v \in Seq(Samples) /\ Len(v) = BufferLen
  BY <1>2, WindowIsSeq
<1> HIDE DEF c
<1>4. v[BufferLen] = d
  <2> DEFINE j == c.head + BufferLen - 1
  <2>1. v[BufferLen] = c.buf[IF j < BufferLen THEN j ELSE j - BufferLen]
    <3>1. BufferLen \in 1 .. BufferLen
      BY BufferLenIsPositive
    <3> QED BY <1>2, <3>1, WindowSlot
  <2>2. (IF j < BufferLen THEN j ELSE j - BufferLen) = b.head
    BY <1>1, <1>2, BufferLenIsPositive DEF Slots
  <2> QED BY <1>1, <1>2, <2>1, <2>2
<1>5. ASSUME NEW i \in 1 .. BufferLen - 1
      PROVE  v[i] = w[i + 1]
  <2> DEFINE j == c.head + i - 1
             k == b.head + (i + 1) - 1
             slot == IF k < BufferLen THEN k ELSE k - BufferLen
  <2>1. i \in 1 .. BufferLen /\ i + 1 \in 1 .. BufferLen
    BY BufferLenIsPositive
  <2>2. v[i] = c.buf[IF j < BufferLen THEN j ELSE j - BufferLen]
    BY <1>2, <2>1, WindowSlot
  <2>3. w[i + 1] = b.buf[slot]
    BY <2>1, WindowSlot
  <2>4. (IF j < BufferLen THEN j ELSE j - BufferLen) = slot
    BY <1>1, <1>2, <2>1, BufferLenIsPositive DEF Slots
  <2>5. slot \in Slots /\ slot # b.head
    BY <1>1, <2>1, BufferLenIsPositive DEF Slots
  <2> HIDE DEF slot
  <2> QED BY <1>1, <1>2, <2>2, <2>3, <2>4, <2>5
<1> HIDE DEF w, v
<1>6. /\ Append(Tail(w), d) \in Seq(Samples)
      /\ Len(Append(Tail(w), d)) = BufferLen
      /\ Append(Tail(w), d)[BufferLen] = d
      /\ \A i \in 1 .. BufferLen - 1 : Append(Tail(w), d)[i] = w[i + 1]
  BY <1>3, BufferLenIsPositive
<1>7. \A i \in 1 .. BufferLen : v[i] = Append(Tail(w), d)[i]
  BY <1>4, <1>5, <1>6, BufferLenIsPositive
<1>8. v = Append(Tail(w), d)
  BY <1>3, <1>6, <1>7, SeqEqual
<1> QED BY <1>8 DEF v, w, c

-----------------------------------------------------------------------------
(* The curve and the exponential average: what fits 16 bits.               *)

IsUint16(n) == n \in Nat /\ n <= 65535

\* A 16-bit value survives the cast.
LEMMA Uint16Fits ==
  ASSUME NEW n \in Int
  PROVE  IsUint16(Uint16(n))
<1>1. n % 65536 \in Nat /\ n % 65536 < 65536
  BY Remainder
<1> QED BY <1>1 DEF Uint16, IsUint16

\* Whatever the low time, its concentration is a value of a uint16_t.
LEMMA ConcentrationFits ==
  ASSUME NEW n \in Nat
  PROVE  IsUint16(Concentration(n))
<1>1. IsUint16(Occupancy(n))
  <2> DEFINE w == (100 * LPO_SCALING * n) % WordMod
  <2>1. 100 * LPO_SCALING * n \in Int
    BY DEF LPO_SCALING
  <2>2. w \in Int
    BY <2>1, CurveConstants, Remainder
  <2> HIDE DEF w
  <2>3. w \div SampleTime \in Int
    BY <2>2, CurveConstants
  <2> QED BY <2>3, Uint16Fits DEF Occupancy, w
<1>2. ASSUME NEW o, IsUint16(o)
      PROVE  IsUint16(DustCons(o))
  <2> DEFINE quot(a, d) == a \div d
  <2>1. o \in Nat
    BY <1>2 DEF IsUint16
  <2>2. ASSUME NEW m \in Int, NEW d \in Nat \ {0} PROVE quot(m, d) \in Int
    BY Remainder
  <2> HIDE DEF quot
  <2>3. /\ quot(143 * o, 2 * 100) \in Int /\ quot(208 * o + 130, 3 * 100) \in Int
        /\ quot(1155 * o - 1572, 10 * 100) \in Int /\ quot(2354 * o - 19560, 10 * 100) \in Int
    <3>1. quot(143 * o, 2 * 100) \in Int
      BY <2>1, <2>2
    <3>2. quot(208 * o + 130, 3 * 100) \in Int
      BY <2>1, <2>2
    <3>3. quot(1155 * o - 1572, 10 * 100) \in Int
      BY <2>1, <2>2
    <3>4. quot(2354 * o - 19560, 10 * 100) \in Int
      BY <2>1, <2>2
    <3> QED BY <3>1, <3>2, <3>3, <3>4
  <2> DEFINE line == CASE o <= 2 * 100 -> quot(143 * o, 2 * 100)
                       [] o > 2 * 100 /\ o <= 4 * 100  -> quot(208 * o + 130, 3 * 100)
                       [] o > 4 * 100 /\ o <= 15 * 100 -> quot(1155 * o - 1572, 10 * 100)
                       [] o > 15 * 100 -> quot(2354 * o - 19560, 10 * 100)
  <2>4. line \in Int
    BY <2>1, <2>3
  <2>5. DustCons(o) = Uint16(line)
    BY DEF DustCons, DustConsAt, LPO_SCALING, quot
  <2> HIDE DEF line
  <2> QED BY <2>4, <2>5, Uint16Fits
<1> QED BY <1>1, <1>2 DEF Concentration

\* The filtered value fits 16 bits.
LEMMA ExpAverageFits ==
  ASSUME NEW s, NEW d, IsUint16(s), IsUint16(d)
  PROVE  IsUint16(ExpAverage(s, d))
<1> DEFINE n == s + (ExpWeight - 1) * d
           w == n % WordMod
<1>1. n \in Int
  BY CurveConstants DEF IsUint16
<1> HIDE DEF n
<1>2. w \in Int
  BY <1>1, CurveConstants, Remainder
<1> HIDE DEF w
<1>3. w \div ExpWeight \in Int
  BY <1>2, CurveConstants
<1> QED BY <1>3, Uint16Fits DEF ExpAverage, w, n

\* The cast to 16 bits keeps what already fits.
LEMMA Uint16Keeps ==
  ASSUME NEW n, IsUint16(n)
  PROVE  Uint16(n) = n
<1>1. n \in Nat /\ n < 65536
  BY DEF IsUint16
<1> QED BY <1>1, Small DEF Uint16

-----------------------------------------------------------------------------
(* Exactness.                                                              *)

\* A quotient is the whole part: the only q with k * q <= n < k * (q + 1).
LEMMA Quotient ==
  ASSUME NEW k \in Nat \ {0}, NEW n \in Nat
  PROVE  /\ n \div k \in Nat
         /\ (n \div k) * k <= n
         /\ n < (n \div k + 1) * k
<1> DEFINE q == n \div k
           r == n % k
<1>1. q \in Int /\ r \in Nat /\ r < k /\ n = k * q + r
  BY Remainder
<1> HIDE DEF q, r
<1>2. q >= 0
  <2> SUFFICES ASSUME q <= -1 PROVE FALSE
    BY <1>1
  <2>1. k * q <= -k
    BY <1>1
  <2> QED BY <1>1, <2>1
<1>3. k * q = q * k /\ (q + 1) * k = k * q + k
  BY <1>1
<1>4. q \in Nat /\ q * k <= n /\ n < (q + 1) * k
  BY <1>1, <1>2, <1>3
<1> QED BY <1>4 DEF q

\* A quotient lies between two numbers when their multiples lie around n.
LEMMA QuotientBounds ==
  ASSUME NEW k \in Nat \ {0}, NEW n \in Nat, NEW lo \in Nat, NEW hi \in Nat,
         lo * k <= n, n <= hi * k
  PROVE  lo <= n \div k /\ n \div k <= hi
<1> DEFINE q == n \div k
<1>1. q \in Nat /\ q * k <= n /\ n < (q + 1) * k
  BY Quotient
<1> HIDE DEF q
<1>2. lo <= q
  <2> SUFFICES ASSUME q + 1 <= lo PROVE FALSE
    BY <1>1
  <2>1. (q + 1) * k <= lo * k
    BY <1>1
  <2> QED BY <1>1, <2>1
<1>3. q <= hi
  <2> SUFFICES ASSUME hi + 1 <= q PROVE FALSE
    BY <1>1
  <2>1. (hi + 1) * k <= q * k
    BY <1>1
  <2>2. hi * k < (hi + 1) * k
    OBVIOUS
  <2> QED BY <1>1, <2>1, <2>2
<1> QED BY <1>2, <1>3 DEF q

\* sm_pwm_01c.c:89: when the product of a whole sample fits 32 bits, the low time
\* of every sample that is low for no longer than it lasts has its true
\* occupancy, in hundredths of a per cent.
THEOREM OccupancyExact ==
  ASSUME 100 * LPO_SCALING * SampleTime < WordMod
  PROVE  \A low \in 0 .. SampleTime : IsExact(Occupancy(low), low)
<1> SUFFICES ASSUME NEW low \in 0 .. SampleTime
             PROVE  IsExact(Occupancy(low), low)
  OBVIOUS
<1> DEFINE n == 10000 * low
           q == n \div SampleTime
<1>1. SampleTime \in Nat \ {0} /\ WordMod \in Nat \ {0} /\ low \in Nat /\ low <= SampleTime
  BY CurveConstants
<1>2. n \in Nat /\ n <= 10000 * SampleTime /\ n < WordMod /\ 0 * SampleTime <= n
  BY <1>1 DEF LPO_SCALING
<1>3. 100 * LPO_SCALING * low = n
  BY <1>1 DEF LPO_SCALING
<1> HIDE DEF n
<1>4. n % WordMod = n
  BY <1>1, <1>2, Small
<1>5. q \in Nat /\ q * SampleTime <= n /\ n < (q + 1) * SampleTime
  BY <1>1, <1>2, Quotient
<1>6. q <= 10000
  BY <1>1, <1>2, QuotientBounds
<1> HIDE DEF q
<1>7. Uint16(q) = q
  BY <1>5, <1>6, Uint16Keeps DEF IsUint16
<1>8. Occupancy(low) = q
  BY <1>3, <1>4, <1>7 DEF Occupancy, q
<1>9. q \in 0 .. 100 * LPO_SCALING
  <2>1. 100 * LPO_SCALING = 10000
    BY DEF LPO_SCALING
  <2> QED BY <1>5, <1>6, <2>1
<1> QED BY <1>3, <1>5, <1>8, <1>9 DEF IsExact

\* sm_pwm_01c.c:110: when the weighted sum fits 32 bits, the exponential average
\* moves towards the sample, from above or from below, and never past it.
THEOREM AverageHasNoOvershoot ==
  ASSUME 65535 * ExpWeight < WordMod,
         NEW sample, NEW old, IsUint16(sample), IsUint16(old)
  PROVE  Approaches(old, ExpAverage(sample, old), sample)
<1> DEFINE w == ExpWeight
           n == sample + (w - 1) * old
           q == n \div w
<1>1. /\ w \in Nat \ {0} /\ WordMod \in Nat \ {0}
      /\ sample \in Nat /\ sample <= 65535 /\ old \in Nat /\ old <= 65535
  BY CurveConstants DEF IsUint16
<1> HIDE DEF w
<1>2. (w - 1) * old = w * old - old /\ w * old \in Nat /\ old * w = w * old /\ sample * w \in Nat
  BY <1>1
<1>3. w * old <= w * 65535 /\ old <= w * old
  BY <1>1
<1>4. n \in Nat /\ n = w * old + sample - old
  BY <1>1, <1>2, <1>3
<1>n. n \in Nat
  BY <1>4
<1>5. n < WordMod
  <2>1. (w - 1) * old <= (w - 1) * 65535
    BY <1>1
  <2>2. (w - 1) * 65535 = 65535 * w - 65535
    BY <1>1
  <2>3. n <= 65535 * w
    BY <1>1, <2>1, <2>2
  <2>4. 65535 * w < WordMod
    BY DEF w
  <2> QED BY <1>1, <1>4, <2>3, <2>4
<1>6. ASSUME old <= sample PROVE old <= q /\ q <= sample
  <2> DEFINE e == sample - old
  <2>1. e \in Nat /\ e <= e * w /\ e * w = sample * w - old * w
    BY <1>1, <1>6
  <2>2. old * w <= n /\ n <= sample * w
    BY <1>1, <1>2, <1>4, <2>1
  <2> HIDE DEF n, e
  <2> QED BY <1>1, <1>n, <2>2, QuotientBounds
<1>7. ASSUME old >= sample PROVE sample <= q /\ q <= old
  <2> DEFINE e == old - sample
  <2>1. e \in Nat /\ e <= e * w /\ e * w = old * w - sample * w
    BY <1>1, <1>7
  <2>2. sample * w <= n /\ n <= old * w
    BY <1>1, <1>2, <1>4, <2>1
  <2> HIDE DEF n, e
  <2> QED BY <1>1, <1>n, <2>2, QuotientBounds
<1>8. n % WordMod = n
  <2> HIDE DEF n
  <2> QED BY <1>1, <1>n, <1>5, Small
<1>9. q \in Nat
  <2> HIDE DEF n
  <2> QED BY <1>1, <1>n, Quotient
<1> HIDE DEF q
<1>10. q <= 65535
  BY <1>1, <1>6, <1>7, <1>9
<1>11. ExpAverage(sample, old) = q
  <2>1. Uint16(q) = q
    BY <1>9, <1>10, Uint16Keeps DEF IsUint16
  <2> QED BY <1>8, <2>1 DEF ExpAverage, q, w
<1> QED BY <1>1, <1>6, <1>7, <1>9, <1>11 DEF Approaches

\* While the last line stays below top, no line of the curve is cut to 16 bits.
LEMMA CurveIsNotCut ==
  ASSUME NEW top \in Nat, 1731 <= top, top <= 65535,
         NEW o \in Nat, 2354 * o <= 1000 * top + 19560
  PROVE  /\ DustCons(o) \in Nat /\ DustCons(o) <= top
         /\ o <= 200               => DustCons(o) = (143 * o) \div 200
         /\ o > 200 /\ o <= 400    => DustCons(o) = (208 * o + 130) \div 300
         /\ o > 400 /\ o <= 1500   => DustCons(o) = (1155 * o - 1572) \div 1000
         /\ o > 1500               => DustCons(o) = (2354 * o - 19560) \div 1000
<1> DEFINE quot(a, d) == a \div d
<1>q. ASSUME NEW a \in Nat, NEW d \in Nat \ {0}, a <= top * d
      PROVE  quot(a, d) \in Nat /\ quot(a, d) <= top /\ Uint16(quot(a, d)) = quot(a, d)
  <2> DEFINE q == a \div d
  <2>1. 0 * d <= a
    OBVIOUS
  <2>2. q \in Nat /\ q <= top
    BY <1>q, <2>1, Quotient, QuotientBounds
  <2> HIDE DEF q
  <2>3. Uint16(q) = q
    BY <2>2, Uint16Keeps DEF IsUint16
  <2> QED BY <2>2, <2>3 DEF q
<1> HIDE DEF quot
<1> DEFINE A == o <= 2 * 100
           B == o > 2 * 100 /\ o <= 4 * 100
           C == o > 4 * 100 /\ o <= 15 * 100
           D == o > 15 * 100
           line == CASE A -> quot(143 * o, 2 * 100)
                     [] B -> quot(208 * o + 130, 3 * 100)
                     [] C -> quot(1155 * o - 1572, 10 * 100)
                     [] D -> quot(2354 * o - 19560, 10 * 100)
<1>1. DustCons(o) = Uint16(line)
  BY DEF DustCons, DustConsAt, LPO_SCALING, quot
<1>2. CASE A
  <2>1. 143 * o \in Nat /\ 143 * o <= top * (2 * 100) /\ 2 * 100 \in Nat \ {0}
    BY <1>2
  <2>2. line = quot(143 * o, 2 * 100)
    BY <1>2
  <2> HIDE DEF line
  <2>3. DustCons(o) = quot(143 * o, 200) /\ DustCons(o) \in Nat /\ DustCons(o) <= top
    BY <1>1, <1>q, <2>1, <2>2
  <2> QED BY <1>2, <2>3 DEF quot
<1>3. CASE B
  <2>1. 208 * o + 130 \in Nat /\ 208 * o + 130 <= top * (3 * 100) /\ 3 * 100 \in Nat \ {0}
    BY <1>3
  <2>2. line = quot(208 * o + 130, 3 * 100)
    BY <1>3
  <2> HIDE DEF line
  <2>3. DustCons(o) = quot(208 * o + 130, 300) /\ DustCons(o) \in Nat /\ DustCons(o) <= top
    BY <1>1, <1>q, <2>1, <2>2
  <2> QED BY <1>3, <2>3 DEF quot
<1>4. CASE C
  <2>1. 1155 * o - 1572 \in Nat /\ 1155 * o - 1572 <= top * (10 * 100) /\ 10 * 100 \in Nat \ {0}
    BY <1>4
  <2>2. line = quot(1155 * o - 1572, 10 * 100)
    BY <1>4
  <2> HIDE DEF line
  <2>3. DustCons(o) = quot(1155 * o - 1572, 1000) /\ DustCons(o) \in Nat /\ DustCons(o) <= top
    BY <1>1, <1>q, <2>1, <2>2
  <2> QED BY <1>4, <2>3 DEF quot
<1>5. CASE D
  <2>1. 2354 * o - 19560 \in Nat /\ 2354 * o - 19560 <= top * (10 * 100) /\ 10 * 100 \in Nat \ {0}
    BY <1>5
  <2>2. line = quot(2354 * o - 19560, 10 * 100)
    BY <1>5
  <2> HIDE DEF line
  <2>3. DustCons(o) = quot(2354 * o - 19560, 1000) /\ DustCons(o) \in Nat /\ DustCons(o) <= top
    BY <1>1, <1>q, <2>1, <2>2
  <2> QED BY <1>5, <2>3 DEF quot
<1>6. A \/ B \/ C \/ D
  OBVIOUS
<1> QED BY <1>2, <1>3, <1>4, <1>5, <1>6

\* Up to 100 per cent the curve stays below 23522 micrograms.
LEMMA ConcentrationBound ==
  ASSUME NEW o \in Nat, o <= 10000
  PROVE  /\ DustCons(o) \in Nat /\ DustCons(o) <= 23521
         /\ o <= 200               => DustCons(o) = (143 * o) \div 200
         /\ o > 200 /\ o <= 400    => DustCons(o) = (208 * o + 130) \div 300
         /\ o > 400 /\ o <= 1500   => DustCons(o) = (1155 * o - 1572) \div 1000
         /\ o > 1500               => DustCons(o) = (2354 * o - 19560) \div 1000
<1>1. 2354 * o <= 1000 * 23521 + 19560
  OBVIOUS
<1> QED BY <1>1, CurveIsNotCut

\* A larger number has no smaller quotient.
LEMMA QuotientRises ==
  ASSUME NEW k \in Nat \ {0}, NEW a \in Nat, NEW b \in Nat, a <= b
  PROVE  a \div k <= b \div k
<1> DEFINE q == a \div k
<1>1. q \in Nat /\ q * k <= a
  BY Quotient
<1> HIDE DEF q
<1>2. q * k <= b /\ b <= b * k
  BY <1>1
<1>3. q <= b \div k
  BY <1>1, <1>2, QuotientBounds
<1> QED BY <1>3 DEF q

\* The curve rises from each hundredth of a per cent to the next, but for one.
LEMMA CurveRisesByOne ==
  ASSUME NEW o \in Nat, o < 10000, o # 200
  PROVE  DustCons(o) <= DustCons(o + 1)
<1> DEFINE p == o + 1
<1>1. p \in Nat /\ p <= 10000
  OBVIOUS
<1>2. CASE o < 200
  <2>1. 143 * o \in Nat /\ 143 * p \in Nat /\ 143 * o <= 143 * p
    OBVIOUS
  <2>2. DustCons(o) = (143 * o) \div 200 /\ DustCons(p) = (143 * p) \div 200
    BY <1>1, <1>2, ConcentrationBound
  <2> HIDE DEF p
  <2> QED BY <2>1, <2>2, QuotientRises DEF p
<1>3. CASE o > 200 /\ o < 400
  <2> DEFINE a == 208 * o + 130
             b == 208 * p + 130
  <2>1. a \in Nat /\ b \in Nat /\ a <= b
    OBVIOUS
  <2>2. DustCons(o) = a \div 300 /\ DustCons(p) = b \div 300
    BY <1>1, <1>3, ConcentrationBound
  <2> HIDE DEF a, b
  <2> QED BY <2>1, <2>2, QuotientRises
<1>4. CASE o = 400
  <2>1. DustCons(o) = 83330 \div 300 /\ DustCons(p) = 461583 \div 1000
    BY <1>1, <1>4, ConcentrationBound
  <2>2. 83330 \div 300 <= 278 /\ 461 <= 461583 \div 1000
    BY QuotientBounds
  <2> QED BY <2>1, <2>2, <1>1, ConcentrationBound
<1>5. CASE o > 400 /\ o < 1500
  <2> DEFINE a == 1155 * o - 1572
             b == 1155 * p - 1572
  <2>1. a \in Nat /\ b \in Nat /\ a <= b
    BY <1>5
  <2>2. DustCons(o) = a \div 1000 /\ DustCons(p) = b \div 1000
    BY <1>1, <1>5, ConcentrationBound
  <2> HIDE DEF a, b
  <2> QED BY <2>1, <2>2, QuotientRises
<1>6. CASE o = 1500
  <2>1. DustCons(o) = 1730928 \div 1000 /\ DustCons(p) = 3513794 \div 1000
    BY <1>1, <1>6, ConcentrationBound
  <2>2. 1730928 \div 1000 <= 1731 /\ 3513 <= 3513794 \div 1000
    BY QuotientBounds
  <2> QED BY <2>1, <2>2, <1>1, ConcentrationBound
<1>7. CASE o > 1500
  <2> DEFINE a == 2354 * o - 19560
             b == 2354 * p - 19560
  <2>1. a \in Nat /\ b \in Nat /\ a <= b
    BY <1>7
  <2>2. DustCons(o) = a \div 1000 /\ DustCons(p) = b \div 1000
    BY <1>1, <1>7, ConcentrationBound
  <2> HIDE DEF a, b
  <2> QED BY <2>1, <2>2, QuotientRises
<1> QED BY <1>2, <1>3, <1>4, <1>5, <1>6, <1>7

\* The unscaled curve at a whole per cent.
LEMMA CurveAtPercent ==
  ASSUME NEW p \in Nat, p <= 100
  PROVE  /\ p <= 2             => DustConsAt(p, 1) = (143 * p) \div 2
         /\ p > 2 /\ p <= 4    => DustConsAt(p, 1) = (208 * p + 130) \div 3
         /\ p > 4 /\ p <= 15   => DustConsAt(p, 1) = (1155 * p - 1572) \div 10
         /\ p > 15             => DustConsAt(p, 1) = (2354 * p - 19560) \div 10
<1> DEFINE quot(a, d) == a \div d
<1>q. ASSUME NEW a \in Nat, NEW d \in Nat \ {0}, a <= 21584 * d
      PROVE  Uint16(quot(a, d)) = quot(a, d)
  <2> DEFINE q == a \div d
  <2>1. 0 * d <= a
    OBVIOUS
  <2>2. q \in Nat /\ q <= 21584
    BY <1>q, <2>1, Quotient, QuotientBounds
  <2> HIDE DEF q
  <2> QED BY <2>2, Uint16Keeps DEF IsUint16, q
<1> HIDE DEF quot
<1> DEFINE A == p <= 2 * 1
           B == p > 2 * 1 /\ p <= 4 * 1
           C == p > 4 * 1 /\ p <= 15 * 1
           D == p > 15 * 1
           line == CASE A -> quot(143 * p, 2 * 1)
                     [] B -> quot(208 * p + 130, 3 * 1)
                     [] C -> quot(1155 * p - 1572, 10 * 1)
                     [] D -> quot(2354 * p - 19560, 10 * 1)
<1>1. DustConsAt(p, 1) = Uint16(line)
  BY DEF DustConsAt, quot
<1>2. CASE A
  <2>1. line = quot(143 * p, 2) /\ 143 * p \in Nat /\ 143 * p <= 21584 * 2
    BY <1>2
  <2> HIDE DEF line
  <2> QED BY <1>1, <1>2, <1>q, <2>1 DEF quot
<1>3. CASE B
  <2>1. line = quot(208 * p + 130, 3) /\ 208 * p + 130 \in Nat /\ 208 * p + 130 <= 21584 * 3
    BY <1>3
  <2> HIDE DEF line
  <2> QED BY <1>1, <1>3, <1>q, <2>1 DEF quot
<1>4. CASE C
  <2>1. line = quot(1155 * p - 1572, 10) /\ 1155 * p - 1572 \in Nat /\ 1155 * p - 1572 <= 21584 * 10
    BY <1>4
  <2> HIDE DEF line
  <2> QED BY <1>1, <1>4, <1>q, <2>1 DEF quot
<1>5. CASE D
  <2>1. line = quot(2354 * p - 19560, 10) /\ 2354 * p - 19560 \in Nat /\ 2354 * p - 19560 <= 21584 * 10
    BY <1>5
  <2> HIDE DEF line
  <2> QED BY <1>1, <1>5, <1>q, <2>1 DEF quot
<1>6. A \/ B \/ C \/ D
  OBVIOUS
<1> QED BY <1>2, <1>3, <1>4, <1>5, <1>6

\* How far the scaled curve is from the unscaled one at a whole per cent.
Displaced(p) == DustCons(p * LPO_SCALING) - DustConsAt(p, 1)

\* sm_pwm_01c.c:33, :70, :73, :76: where ScalingKeepsCurve fails, and by how much.
\* Scaling the slopes and not the constants leaves the curve where it was up to 2 per
\* cent, puts it 43 micrograms too low up to 4, 155 or 156 too high up to 15, and
\* 1936 or 1937 too high from there on.
THEOREM ScalingMovesCurve ==
  \A p \in 0 .. 100 :
    /\ p <= 2           => Displaced(p) = 0
    /\ p \in 3 .. 4     => Displaced(p) = -43
    /\ p \in 5 .. 15    => Displaced(p) \in 155 .. 156
    /\ p \in 16 .. 100  => Displaced(p) \in 1936 .. 1937
<1> SUFFICES ASSUME NEW p \in 0 .. 100
             PROVE  /\ p <= 2           => Displaced(p) = 0
                    /\ p \in 3 .. 4     => Displaced(p) = -43
                    /\ p \in 5 .. 15    => Displaced(p) \in 155 .. 156
                    /\ p \in 16 .. 100  => Displaced(p) \in 1936 .. 1937
  OBVIOUS
<1> DEFINE o == p * LPO_SCALING
<1>1. o = 100 * p /\ o \in Nat /\ o <= 10000 /\ p \in Nat /\ p <= 100
  BY DEF LPO_SCALING
<1>d. Displaced(p) = DustCons(o) - DustConsAt(p, 1)
  BY DEF Displaced
<1> HIDE DEF o
<1>2. CASE p <= 2
  <2>1. DustCons(o) = (14300 * p) \div 200 /\ DustConsAt(p, 1) = (143 * p) \div 2
    BY <1>1, <1>2, ConcentrationBound, CurveAtPercent
  <2> QED BY <1>1, <1>2, <1>d, <2>1
<1>3. CASE p \in 3 .. 4
  <2>1. DustCons(o) = (20800 * p + 130) \div 300
    <3>1. o > 200 /\ o <= 400 /\ 208 * o + 130 = 20800 * p + 130
      BY <1>1, <1>3
    <3>2. DustCons(o) = (208 * o + 130) \div 300
      BY <1>1, <3>1, ConcentrationBound
    <3> QED BY <3>1, <3>2
  <2>2. DustConsAt(p, 1) = (208 * p + 130) \div 3
    BY <1>1, <1>3, CurveAtPercent
  <2> QED BY <1>1, <1>3, <1>d, <2>1, <2>2
<1>4. CASE p \in 5 .. 15
  <2>1. /\ DustCons(o) = (115500 * p - 1572) \div 1000
        /\ DustConsAt(p, 1) = (1155 * p - 1572) \div 10
    BY <1>1, <1>4, ConcentrationBound, CurveAtPercent
  <2> QED BY <1>1, <1>4, <1>d, <2>1
<1>5. CASE p \in 16 .. 100
  <2>1. DustCons(o) = (235400 * p - 19560) \div 1000
    <3>1. o > 1500 /\ 2354 * o - 19560 = 235400 * p - 19560
      BY <1>1, <1>5
    <3>2. DustCons(o) = (2354 * o - 19560) \div 1000
      BY <1>1, <3>1, ConcentrationBound
    <3> QED BY <3>1, <3>2
  <2>2. DustConsAt(p, 1) = (2354 * p - 19560) \div 10
    BY <1>1, <1>5, CurveAtPercent
  <2> QED BY <1>1, <1>5, <1>d, <2>1, <2>2
<1> QED BY <1>2, <1>3, <1>4, <1>5

\* What an exact occupancy is, in numbers.
LEMMA ExactBounds ==
  ASSUME NEW a, NEW n \in Nat, IsExact(a, n)
  PROVE  /\ a \in Nat /\ a <= 10000
         /\ a * SampleTime <= 10000 * n /\ 10000 * n < (a + 1) * SampleTime
<1> DEFINE full == 100 * LPO_SCALING
<1>1. full = 10000
  BY DEF LPO_SCALING
<1>2. a \in 0 .. full /\ a * SampleTime <= full * n /\ full * n < (a + 1) * SampleTime
  BY DEF IsExact
<1> HIDE DEF full
<1>3. a \in 0 .. full /\ full \in Nat
  BY <1>1, <1>2
<1> QED BY <1>1, <1>2, <1>3

\* In a sample of 10000 ticks or more, one tick more of low time is at most one
\* hundredth of a per cent more of occupancy.
LEMMA OccupancyByOne ==
  ASSUME 100 * LPO_SCALING * SampleTime < WordMod, SampleTime >= 10000,
         NEW low \in 0 .. SampleTime - 1
  PROVE  /\ Occupancy(low) \in Nat /\ Occupancy(low + 1) \in Nat
         /\ Occupancy(low + 1) <= 10000
         /\ Occupancy(low + 1) \in {Occupancy(low), Occupancy(low) + 1}
<1> DEFINE o == Occupancy(low)
           p == Occupancy(low + 1)
           S == SampleTime
<1>1. S \in Nat /\ S >= 10000 /\ low \in Nat /\ low \in 0 .. S /\ low + 1 \in 0 .. S
  BY CurveConstants
<1>2. IsExact(o, low) /\ IsExact(p, low + 1)
  BY <1>1, OccupancyExact
<1> HIDE DEF o, p
<1>3. /\ o \in Nat /\ o * S <= 10000 * low /\ 10000 * low < (o + 1) * S
      /\ p \in Nat /\ p <= 10000
      /\ p * S <= 10000 * (low + 1) /\ 10000 * (low + 1) < (p + 1) * S
  BY <1>1, <1>2, ExactBounds
<1> HIDE DEF S
<1>4. o \in Nat /\ p \in Nat /\ p <= 10000
  BY <1>3
<1>5. /\ o * S <= 10000 * low /\ 10000 * low < (o + 1) * S
      /\ p * S <= 10000 * low + 10000 /\ 10000 * low + 10000 < (p + 1) * S
  <2>1. 10000 * (low + 1) = 10000 * low + 10000
    BY <1>1
  <2> QED BY <1>3, <2>1
<1>6. o <= p
  <2> SUFFICES ASSUME p + 1 <= o PROVE FALSE
    BY <1>4
  <2>1. (p + 1) * S <= o * S
    BY <1>1, <1>4
  <2>2. (p + 1) * S \in Nat /\ o * S \in Nat
    BY <1>1, <1>4
  <2> QED BY <1>1, <1>5, <2>1, <2>2
<1>7. p <= o + 1
  <2> SUFFICES ASSUME o + 2 <= p PROVE FALSE
    BY <1>4
  <2>1. (o + 2) * S <= p * S
    BY <1>1, <1>4
  <2>2. (o + 2) * S = (o + 1) * S + S /\ (o + 1) * S \in Nat /\ p * S \in Nat
    BY <1>1, <1>4
  <2> QED BY <1>1, <1>5, <2>1, <2>2
<1> QED BY <1>4, <1>6, <1>7 DEF o, p

-----------------------------------------------------------------------------
(* What holds of samples and averages whatever the widths.                 *)

\* A remainder is not more than the number.
LEMMA RemainderIsLess ==
  ASSUME NEW k \in Nat \ {0}, NEW n \in Nat
  PROVE  n % k \in Nat /\ n % k <= n
<1> DEFINE q == n \div k
           r == n % k
<1>1. q \in Nat /\ q * k <= n
  BY Quotient
<1>2. r \in Nat /\ n = k * q + r
  BY Remainder
<1> HIDE DEF q, r
<1>3. k * q \in Nat
  BY <1>1
<1>4. r <= n
  BY <1>2, <1>3
<1> QED BY <1>2, <1>4 DEF r

\* What is left of a quotient in 16 bits, times the divisor.
LEMMA CutQuotient ==
  ASSUME NEW k \in Nat \ {0}, NEW n \in Nat
  PROVE  Uint16(n \div k) \in Nat /\ Uint16(n \div k) * k <= n
<1> DEFINE q == n \div k
           u == q % 65536
<1>1. q \in Nat /\ q * k <= n
  BY Quotient
<1>2. u \in Nat /\ u <= q
  <2> HIDE DEF q
  <2> QED BY <1>1, RemainderIsLess
<1>3. Uint16(n \div k) = u
  BY DEF Uint16
<1> HIDE DEF q, u
<1>4. u * k <= q * k /\ u * k \in Nat /\ q * k \in Nat
  BY <1>1, <1>2
<1> QED BY <1>1, <1>2, <1>3, <1>4

\* No line of the curve is steeper than 2.354 micrograms per hundredth.
LEMMA CurveIsBelowLine ==
  ASSUME NEW o \in Nat
  PROVE  DustCons(o) \in Nat /\ DustCons(o) * 1000 <= 2354 * o
<1> DEFINE cut(a, d) == Uint16(a \div d)
           A == o <= 2 * 100
           B == o > 2 * 100 /\ o <= 4 * 100
           C == o > 4 * 100 /\ o <= 15 * 100
           D == o > 15 * 100
           line == CASE A -> cut(143 * o, 2 * 100)
                     [] B -> cut(208 * o + 130, 3 * 100)
                     [] C -> cut(1155 * o - 1572, 10 * 100)
                     [] D -> cut(2354 * o - 19560, 10 * 100)
<1>q. ASSUME NEW a \in Nat, NEW d \in Nat \ {0}
      PROVE  cut(a, d) \in Nat /\ cut(a, d) * d <= a
  BY <1>q, CutQuotient
<1> HIDE DEF cut
<1>0. A \/ B \/ C \/ D
  OBVIOUS
<1>1. DustCons(o) = line
  <2>1. CASE A
    BY <2>1 DEF DustCons, DustConsAt, LPO_SCALING, cut
  <2>2. CASE B
    BY <2>2 DEF DustCons, DustConsAt, LPO_SCALING, cut
  <2>3. CASE C
    BY <2>3 DEF DustCons, DustConsAt, LPO_SCALING, cut
  <2>4. CASE D
    BY <2>4 DEF DustCons, DustConsAt, LPO_SCALING, cut
  <2> QED BY <1>0, <2>1, <2>2, <2>3, <2>4
<1>2. CASE A
  <2> DEFINE v == cut(143 * o, 2 * 100)
  <2>1. line = v /\ v \in Nat /\ v * (2 * 100) <= 143 * o
    BY <1>2, <1>q
  <2> HIDE DEF line, v
  <2> QED BY <1>1, <2>1
<1>3. CASE B
  <2> DEFINE v == cut(208 * o + 130, 3 * 100)
  <2>1. line = v /\ v \in Nat /\ v * (3 * 100) <= 208 * o + 130
    BY <1>3, <1>q
  <2> HIDE DEF line, v
  <2> QED BY <1>1, <1>3, <2>1
<1>4. CASE C
  <2> DEFINE v == cut(1155 * o - 1572, 10 * 100)
  <2>1. 1155 * o - 1572 \in Nat
    BY <1>4
  <2>2. line = v /\ v \in Nat /\ v * (10 * 100) <= 1155 * o - 1572
    BY <1>4, <1>q, <2>1
  <2> HIDE DEF line, v
  <2> QED BY <1>1, <1>4, <2>2
<1>5. CASE D
  <2> DEFINE v == cut(2354 * o - 19560, 10 * 100)
  <2>1. 2354 * o - 19560 \in Nat
    BY <1>5
  <2>2. line = v /\ v \in Nat /\ v * (10 * 100) <= 2354 * o - 19560
    BY <1>5, <1>q, <2>1
  <2> HIDE DEF line, v
  <2> QED BY <1>1, <1>5, <2>2
<1> QED BY <1>0, <1>2, <1>3, <1>4, <1>5

\* A sample never says more than its low time would along that line.
LEMMA ConcentrationIsBelowLine ==
  ASSUME NEW low \in Nat
  PROVE  Concentration(low) \in Nat /\ SampleTime * Concentration(low) <= 23540 * low
<1> DEFINE o == Occupancy(low)
           c == DustCons(o)
           n == (100 * LPO_SCALING * low) % WordMod
           S == SampleTime
<1>1. S \in Nat \ {0} /\ 100 * LPO_SCALING * low = 10000 * low
  BY CurveConstants DEF LPO_SCALING
<1>2. n \in Nat /\ n <= 10000 * low
  BY <1>1, CurveConstants, RemainderIsLess
<1> HIDE DEF n
<1>3. o \in Nat /\ o * S <= n
  BY <1>1, <1>2, CutQuotient DEF Occupancy, n
<1> HIDE DEF o
<1>4. c \in Nat /\ c * 1000 <= 2354 * o /\ Concentration(low) = c
  BY <1>3, CurveIsBelowLine DEF Concentration, o
<1> HIDE DEF c, S
<1>5. (c * 1000) * S <= (2354 * o) * S
  BY <1>1, <1>3, <1>4
<1>6. (c * 1000) * S = 1000 * (S * c) /\ (2354 * o) * S = 2354 * (o * S)
  BY <1>1, <1>3, <1>4
<1>7. S * c \in Nat /\ o * S \in Nat
  BY <1>1, <1>3, <1>4
<1> DEFINE x == S * c
           y == o * S
<1>8. x <= 23540 * low
  <2>1. 1000 * x <= 2354 * y /\ x \in Nat /\ y \in Nat /\ y <= 10000 * low
    BY <1>2, <1>3, <1>5, <1>6, <1>7
  <2> HIDE DEF x, y
  <2> QED BY <2>1
<1> QED BY <1>4, <1>8 DEF S

\* A low time whose product fits 32 bits has its true occupancy, also above 100 per
\* cent, while that fits 16 bits.
LEMMA OccupancyIsNotCut ==
  ASSUME NEW low \in Nat, 100 * LPO_SCALING * low < WordMod,
         NEW top \in Nat, top <= 65535, 10000 * low <= top * SampleTime
  PROVE  /\ Occupancy(low) = (10000 * low) \div SampleTime
         /\ Occupancy(low) \in Nat /\ Occupancy(low) <= top
<1> DEFINE n == 10000 * low
           q == n \div SampleTime
<1>1. SampleTime \in Nat \ {0} /\ WordMod \in Nat \ {0} /\ 100 * LPO_SCALING * low = n
  BY CurveConstants DEF LPO_SCALING
<1>2. n \in Nat /\ n < WordMod /\ n <= top * SampleTime /\ 0 * SampleTime <= n
  BY <1>1
<1> HIDE DEF n
<1>3. n % WordMod = n
  BY <1>1, <1>2, Small
<1>4. q \in Nat
  BY <1>1, <1>2, Quotient
<1>5. q <= top
  BY <1>1, <1>2, QuotientBounds
<1> HIDE DEF q
<1>6. Uint16(q) = q
  BY <1>4, <1>5, Uint16Keeps DEF IsUint16
<1>7. Occupancy(low) = q
  BY <1>1, <1>3, <1>6 DEF Occupancy, q
<1> QED BY <1>4, <1>5, <1>7 DEF q, n

\* The average after a sample, times the weight.
LEMMA AverageTimesWeight ==
  ASSUME NEW sample \in Nat, NEW old \in Nat
  PROVE  /\ ExpAverage(sample, old) \in Nat
         /\ ExpAverage(sample, old) * ExpWeight <= sample + (ExpWeight - 1) * old
<1> DEFINE n == sample + (ExpWeight - 1) * old
           m == n % WordMod
<1>1. ExpWeight \in Nat \ {0} /\ WordMod \in Nat \ {0} /\ n \in Nat
  <2>1. ExpWeight - 1 \in Nat
    BY CurveConstants
  <2> QED BY <2>1, CurveConstants
<1> HIDE DEF n
<1>2. m \in Nat /\ m <= n
  BY <1>1, RemainderIsLess
<1> HIDE DEF m
<1> DEFINE e == Uint16(m \div ExpWeight)
<1>3. e \in Nat /\ e * ExpWeight <= m
  BY <1>1, <1>2, CutQuotient
<1>4. ExpAverage(sample, old) = e
  BY DEF ExpAverage, e, m, n
<1> HIDE DEF e
<1>5. e * ExpWeight \in Nat
  BY <1>1, <1>3
<1>6. e * ExpWeight <= n
  BY <1>1, <1>2, <1>3, <1>5
<1> QED BY <1>3, <1>4, <1>6 DEF n

\* A weight above every sample rounds each of them away.
LEMMA HeavyAverage ==
  ASSUME NEW sample \in Nat, NEW old \in Nat, old = 0, sample < ExpWeight
  PROVE  ExpAverage(sample, old) = 0
<1> DEFINE e == ExpAverage(sample, old)
           rest == (ExpWeight - 1) * old
<1>1. e \in Nat /\ e * ExpWeight <= sample + rest
  BY AverageTimesWeight
<1>2. ExpWeight \in Nat /\ rest = 0
  BY CurveConstants
<1> HIDE DEF e, rest
<1>3. e = 0
  <2> SUFFICES ASSUME e >= 1 PROVE FALSE
    BY <1>1
  <2>1. e * ExpWeight >= 1 * ExpWeight
    BY <1>1, <1>2
  <2> QED BY <1>1, <1>2, <2>1
<1> QED BY <1>3 DEF e

-----------------------------------------------------------------------------
(* Constant air, sample after sample (SteadyAir).                          *)

\* The products of the build fit 32 bits.
Fit32 == 100 * LPO_SCALING * SampleTime < WordMod /\ 65535 * ExpWeight < WordMod

\* A low time of the sample, and an average below the worst concentration.
SteadyInv == steadyLpo \in 0 .. SampleTime /\ steadyData \in Nat /\ steadyData <= 23521

\* The concentration of a low time of the sample.
LEMMA SteadyConcentration ==
  ASSUME Fit32, NEW low \in 0 .. SampleTime
  PROVE  /\ IsExact(Occupancy(low), low)
         /\ Concentration(low) \in Nat /\ Concentration(low) <= 23521
<1>1. IsExact(Occupancy(low), low)
  BY OccupancyExact DEF Fit32
<1>2. Occupancy(low) \in 0 .. 100 * LPO_SCALING /\ 100 * LPO_SCALING = 10000
  <2>1. Occupancy(low) \in 0 .. 100 * LPO_SCALING
    BY <1>1, Zenon DEF IsExact
  <2>2. 100 * LPO_SCALING = 10000
    BY DEF LPO_SCALING
  <2> QED BY <2>1, <2>2
<1>3. Occupancy(low) \in Nat /\ Occupancy(low) <= 10000
  BY <1>2
<1>4. Concentration(low) \in Nat /\ Concentration(low) <= 23521
  BY <1>3, ConcentrationBound DEF Concentration
<1> QED BY <1>1, <1>4

\* A sample of constant air.
LEMMA SteadyStep ==
  ASSUME Fit32, SteadyInv, SteadySample
  PROVE  SteadyInv' /\ Approaches(steadyData, steadyData', Concentration(steadyLpo))
<1> DEFINE c == Concentration(steadyLpo)
           d == ExpAverage(c, steadyData)
<1>1. steadyData' = d /\ steadyLpo' = steadyLpo
  BY DEF SteadySample
<1>2. c \in Nat /\ c <= 23521
  BY SteadyConcentration DEF SteadyInv
<1> HIDE DEF c
<1>3. IsUint16(c) /\ IsUint16(steadyData)
  BY <1>2 DEF SteadyInv, IsUint16
<1>4. Approaches(steadyData, d, c) /\ IsUint16(d)
  BY <1>3, AverageHasNoOvershoot, ExpAverageFits DEF Fit32
<1> HIDE DEF d
<1>5. d \in Nat /\ d <= 23521
  BY <1>2, <1>3, <1>4 DEF Approaches, IsUint16, SteadyInv
<1> QED BY <1>1, <1>4, <1>5 DEF SteadyInv, c

\* The averages stay below the worst concentration.
LEMMA SteadyInvHolds ==
  ASSUME Fit32
  PROVE  SteadySpec => []SteadyInv
<1>1. SteadyInit => SteadyInv
  <2>1. Worst \in Nat /\ Worst <= 23521
    <3>1. 10000 \in Nat /\ 100 * LPO_SCALING = 10000
      BY DEF LPO_SCALING
    <3> QED BY <3>1, ConcentrationBound DEF Worst
  <2> QED BY <2>1 DEF SteadyInit, SteadyInv
<1>2. SteadyInv /\ [SteadySample]_steadyVars => SteadyInv'
  BY SteadyStep DEF steadyVars, SteadyInv
<1> QED BY <1>1, <1>2, PTL DEF SteadySpec

\* sm_pwm_01c.c:89: for every sample time and weight whose products fit 32 bits, the
\* occupancy of every low time is exact.
THEOREM OccupancyStaysExact ==
  ASSUME Fit32
  PROVE  SteadySpec => []OccupancyIsExact
<1>1. SteadyInv => OccupancyIsExact
  <2> SUFFICES ASSUME SteadyInv PROVE OccupancyIsExact
    OBVIOUS
  <2> QED BY SteadyConcentration DEF SteadyInv, OccupancyIsExact
<1> QED BY <1>1, SteadyInvHolds, PTL

\* sm_pwm_01c.c:110: for the same sample times and weights, every sample of constant
\* air moves the average towards its concentration, and never past it.
THEOREM AverageOnlyApproaches ==
  ASSUME Fit32
  PROVE  SteadySpec => AverageApproaches
<1>1. /\ SteadyInv /\ [SteadySample]_steadyVars
      => [Approaches(steadyData, steadyData', Concentration(steadyLpo))]_steadyVars
  BY SteadyStep
<1> QED BY <1>1, SteadyInvHolds, PTL DEF SteadySpec, AverageApproaches

\* sm_pwm_01c_saul.c:37: for the same sample times and weights, phydat_fit leaves
\* every average alone and the text of coap_saul.c:72 has the prefix of micrograms;
\* the bar of the test application is a percentage.
THEOREM ReadingsAreMicrograms ==
  ASSUME Fit32
  PROVE  SteadySpec => []ReadingIsReported
<1>1. SteadyInv => ReadingIsReported
  <2> SUFFICES ASSUME SteadyInv PROVE ReadingIsReported
    OBVIOUS
  <2> DEFINE c == steadyData
  <2>1. c \in Nat /\ c <= 23521
    BY DEF SteadyInv
  <2>2. ReadMc(c) = [val |-> c, scale |-> -6]
    BY <2>1 DEF ReadMc, PhydatFit, Fits
  <2>3. BarValue(c) \in 0 .. 100
    <3>1. CASE c > 3000
      BY <2>1, <3>1 DEF BarValue
    <3>2. CASE c <= 3000
      BY <2>1, <3>2 DEF BarValue
    <3> QED BY <2>1, <3>1, <3>2
  <2> QED BY <2>2, <2>3 DEF ReadingIsReported, Text
<1> QED BY <1>1, SteadyInvHolds, PTL

\* sm_pwm_01c.c:70: for every sample time of at least 10000 ticks, as the default of
\* 100 ms is, whose products fit 32 bits: more dust is not reported as less, but
\* for the step at 2 per cent.
THEOREM MoreIsNotLess ==
  ASSUME Fit32, SampleTime >= 10000
  PROVE  SteadySpec => []CurveRises
<1>1. SteadyInv => CurveRises
  <2> SUFFICES ASSUME SteadyInv, steadyLpo < SampleTime, Occupancy(steadyLpo) # 200
               PROVE  Concentration(steadyLpo) <= Concentration(steadyLpo + 1)
    <3>1. 2 * LPO_SCALING = 200
      BY DEF LPO_SCALING
    <3> QED BY <3>1 DEF CurveRises
  <2> DEFINE o == Occupancy(steadyLpo)
             p == Occupancy(steadyLpo + 1)
  <2>1. steadyLpo \in 0 .. SampleTime - 1
    BY CurveConstants DEF SteadyInv
  <2>2. o \in Nat /\ p \in Nat /\ p <= 10000 /\ p \in {o, o + 1} /\ o # 200
    BY <2>1, OccupancyByOne DEF Fit32
  <2> HIDE DEF o, p
  <2>3. DustCons(o) <= DustCons(p)
    <3>1. CASE p = o
      BY <2>2, <3>1, ConcentrationBound
    <3>2. CASE p = o + 1
      BY <2>2, <3>2, CurveRisesByOne
    <3> QED BY <2>2, <3>1, <3>2
  <2> QED BY <2>3 DEF Concentration, o, p
<1> QED BY <1>1, SteadyInvHolds, PTL

-----------------------------------------------------------------------------
(* Where the exponential average comes to rest.                            *)

\* The averages up to ExpWeight - 1 below what is sampled.
Band(sample) == {d \in Nat : d <= sample /\ sample - d < ExpWeight}

\* A sample leaves the average where it is exactly if it is in the band.
LEMMA FixedPoints ==
  ASSUME 65535 * ExpWeight < WordMod,
         NEW sample, NEW old, IsUint16(sample), IsUint16(old)
  PROVE  ExpAverage(sample, old) = old <=> old \in Band(sample)
<1> DEFINE w == ExpWeight
           n == sample + (w - 1) * old
           q == n \div w
<1>1. /\ w \in Nat \ {0} /\ WordMod \in Nat \ {0}
      /\ sample \in Nat /\ sample <= 65535 /\ old \in Nat /\ old <= 65535
      /\ 65535 * w < WordMod
  BY CurveConstants DEF IsUint16
<1>b. old \in Band(sample) <=> old <= sample /\ sample - old < w
  BY <1>1 DEF Band
<1>e. ExpAverage(sample, old) = Uint16((n % WordMod) \div w)
  BY DEF ExpAverage
<1> HIDE DEF w
<1>2. /\ (w - 1) * old \in Nat /\ (w - 1) * old <= (w - 1) * 65535
      /\ (w - 1) * 65535 = 65535 * w - 65535
      /\ (w - 1) * old = old * w - old /\ old * w \in Nat /\ (old + 1) * w = old * w + w
  BY <1>1
<1>3. n \in Nat /\ n <= 65535 * w /\ n = old * w + sample - old
  BY <1>1, <1>2
<1>4. n < WordMod /\ 0 * w <= n
  BY <1>1, <1>3
<1> HIDE DEF n
<1>5. n % WordMod = n
  BY <1>1, <1>3, <1>4, Small
<1>6. q \in Nat /\ q <= 65535 /\ q * w <= n /\ n < (q + 1) * w
  <2>1. q \in Nat /\ q * w <= n /\ n < (q + 1) * w
    BY <1>1, <1>3, Quotient
  <2>2. q <= 65535
    BY <1>1, <1>3, <1>4, QuotientBounds
  <2> QED BY <2>1, <2>2
<1> HIDE DEF q
<1>7. ExpAverage(sample, old) = q
  BY <1>5, <1>6, <1>e, Uint16Keeps DEF IsUint16, q
<1>8. ASSUME q = old PROVE old <= sample /\ sample - old < w
  BY <1>1, <1>2, <1>3, <1>6, <1>8
<1>9. ASSUME old <= sample, sample - old < w PROVE q = old
  <2>1. old * w <= n /\ n < (old + 1) * w
    <3> DEFINE ow == old * w
    <3>1. ow \in Nat /\ n = ow + sample - old /\ (old + 1) * w = ow + w
      BY <1>2, <1>3
    <3> HIDE DEF ow
    <3>2. ow <= n /\ n < ow + w
      BY <1>1, <1>9, <3>1
    <3> QED BY <3>1, <3>2 DEF ow
  <2>2. ~ (q + 1 <= old)
    <3> SUFFICES ASSUME q + 1 <= old PROVE FALSE
      OBVIOUS
    <3>1. (q + 1) * w <= old * w /\ (q + 1) * w \in Nat
      BY <1>1, <1>6
    <3> QED BY <1>2, <1>3, <1>6, <2>1, <3>1
  <2>3. ~ (old + 1 <= q)
    <3> SUFFICES ASSUME old + 1 <= q PROVE FALSE
      OBVIOUS
    <3>1. (old + 1) * w <= q * w /\ q * w \in Nat /\ (old + 1) * w \in Nat
      BY <1>1, <1>6
    <3> QED BY <1>3, <1>6, <2>1, <3>1
  <2> QED BY <1>1, <1>6, <2>2, <2>3
<1> QED BY <1>7, <1>8, <1>9, <1>b

\* The average rests in the band below the concentration, and nowhere else.
MovesUntilSettled ==
  [][LET goal == Concentration(steadyLpo)
     IN  SteadySample => (steadyData' = steadyData <=> steadyData \in Band(goal))]_steadyVars

\* sm_pwm_01c.c:110: why AverageSettles, for every sample time and weight whose
\* products fit 32 bits: as long as the average of constant air is not in the band a
\* sample moves it, and AverageOnlyApproaches says which way; once there it stays.
THEOREM AverageRestsInBand ==
  ASSUME Fit32
  PROVE  SteadySpec => MovesUntilSettled
<1> DEFINE goal == Concentration(steadyLpo)
           Settles == SteadySample => (steadyData' = steadyData <=> steadyData \in Band(goal))
<1>1. SteadyInv /\ [SteadySample]_steadyVars => [Settles]_steadyVars
  <2> SUFFICES ASSUME SteadyInv, SteadySample
               PROVE  steadyData' = steadyData <=> steadyData \in Band(goal)
    OBVIOUS
  <2>1. goal \in Nat /\ goal <= 23521 /\ steadyData \in Nat /\ steadyData <= 23521
    BY SteadyConcentration DEF SteadyInv
  <2>2. steadyData' = ExpAverage(goal, steadyData)
    BY DEF SteadySample
  <2> HIDE DEF goal
  <2>3. IsUint16(goal) /\ IsUint16(steadyData)
    BY <2>1 DEF IsUint16
  <2> QED BY <2>2, <2>3, FixedPoints DEF Fit32
<1> QED BY <1>1, SteadyInvHolds, PTL DEF SteadySpec, MovesUntilSettled
=============================================================================
