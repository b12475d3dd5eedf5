------------------------- MODULE LatencyStatsProofs -------------------------
(***************************************************************************)
(* The arithmetic of stats[n] is exact for any width of the integers, any  *)
(* moment at which a round begins and any duration the counter can tell.   *)
(***************************************************************************)
EXTENDS LatencyStats, TLAPS

\* Division with remainder.
LEMMA DivMod ==
  ASSUME NEW a \in Int, NEW b \in Int, b > 0
  PROVE  /\ a \div b \in Int /\ a % b \in Int
         /\ 0 <= a % b /\ a % b < b
         /\ a = b * (a \div b) + (a % b)
<1>1. a \div b \in Int /\ a % b \in Int /\ 0 <= a % b /\ a % b < b
  OBVIOUS
<1>2. a = b * (a \div b) + (a % b)
  BY Z3
<1> QED
  BY <1>1, <1>2

\* The quotient and the remainder are unique.
LEMMA DivModUnique ==
  ASSUME NEW b \in Int, NEW q \in Int, NEW r \in Int, 0 <= r, r < b
  PROVE  (b * q + r) \div b = q /\ (b * q + r) % b = r
OBVIOUS

\* A square of a positive number is positive.
LEMMA U64Positive == U64 \in Int /\ U64 > 0 /\ U32 \in Int /\ U32 > 0
<1>1. U32 \in Int /\ U32 > 0
  BY U32Assumption
<1> QED
  BY <1>1 DEF U64

\* __get_tsc() puts the two halves together to the counter modulo 2^64.
THEOREM GetTscExact ==
  ASSUME NEW t \in Nat
  PROVE  __get_tsc(t) = t % U64
<1> DEFINE q == t \div U32
           r == t % U32
           p == q \div U32
           s == q % U32
<1>1. /\ q \in Int /\ r \in Int /\ 0 <= r /\ r < U32
      /\ t = U32 * q + r
  BY DivMod, U64Positive
<1>2. /\ p \in Int /\ s \in Int /\ 0 <= s /\ s < U32
      /\ q = U32 * p + s
  BY <1>1, DivMod, U64Positive
<1>3. __get_tsc(t) = s * U32 + r
  BY DEF __get_tsc, rdtsc
<1> HIDE DEF q, r, p, s
<1>4. t = U64 * p + (s * U32 + r)
  BY <1>1, <1>2, U64Positive DEF U64
<1>5. 0 <= s * U32 + r /\ s * U32 + r < U64
  <2>1. 0 <= s * U32 /\ s * U32 <= (U32 - 1) * U32
    BY <1>2, U64Positive
  <2>2. (U32 - 1) * U32 = U64 - U32
    BY U64Positive DEF U64
  <2> QED
    BY <1>1, <1>2, <2>1, <2>2, U64Positive
<1>6. s * U32 + r \in Int
  BY <1>1, <1>2, U64Positive
<1>7. (U64 * p + (s * U32 + r)) % U64 = s * U32 + r
  BY <1>2, <1>5, <1>6, DivModUnique, U64Positive
<1> QED
  BY <1>3, <1>4, <1>7

\* The difference of two readings is the time between them, even when the
\* counter wraps in between, if that time is less than its period.
THEOREM DifferenceExact ==
  ASSUME NEW t \in Nat, NEW e \in Nat, e < U64
  PROVE  (__get_tsc(t + e) - __get_tsc(t)) % U64 = e
<1> DEFINE p == t \div U64
           r == t % U64
           q == (t + e) \div U64
           s == (t + e) % U64
<1>1. __get_tsc(t) = r /\ __get_tsc(t + e) = s
  BY GetTscExact
<1>2. /\ p \in Int /\ r \in Int /\ 0 <= r /\ r < U64
      /\ t = U64 * p + r
  BY DivMod, U64Positive
<1>3. /\ q \in Int /\ s \in Int /\ 0 <= s /\ s < U64
      /\ t + e = U64 * q + s
  BY DivMod, U64Positive
<1> HIDE DEF p, r, q, s
<1>4. s - r = U64 * (p - q) + e
  <2>1. U64 * (p - q) = U64 * p - U64 * q
    BY <1>2, <1>3, U64Positive
  <2>2. U64 * p \in Int /\ U64 * q \in Int
    BY <1>2, <1>3, U64Positive
  <2> QED
    BY <1>2, <1>3, <2>1, <2>2
<1>5. (U64 * (p - q) + e) % U64 = e
  <2>1. p - q \in Int /\ e \in Int /\ 0 <= e
    BY <1>2, <1>3
  <2> QED
    BY <2>1, DivModUnique, U64Positive
<1> QED
  BY <1>1, <1>4, <1>5

\* stats[n] is the true duration of the round divided by its entries.
THEOREM StatExact ==
  ASSUME NEW k \in Nat \ {0}, NEW t \in Nat, NEW e \in Nat, e < U64
  PROVE  stat(k, t, e) = e \div k
BY DifferenceExact DEF stat

\* If each of the k entries takes from lo to hi cycles, so does stats[n].
THEOREM StatWithinCost ==
  ASSUME NEW k \in Nat \ {0}, NEW t \in Nat, NEW e \in Nat, e < U64,
         NEW lo \in Nat, NEW hi \in Nat, k * lo <= e, e <= k * hi
  PROVE  lo <= stat(k, t, e) /\ stat(k, t, e) <= hi
<1> DEFINE q == e \div k
           r == e % k
<1>1. stat(k, t, e) = q
  BY StatExact
<1>2. q \in Int /\ r \in Int /\ 0 <= r /\ r < k /\ e = k * q + r
  BY DivMod
<1> HIDE DEF q, r
<1>3. lo <= q
  <2> SUFFICES ASSUME q + 1 <= lo PROVE FALSE
    BY <1>2
  <2>1. k * (q + 1) <= k * lo
    BY <1>2
  <2>2. k * (q + 1) = k * q + k
    BY <1>2
  <2> QED
    BY <1>2, <2>1, <2>2
<1>4. q <= hi
  <2> SUFFICES ASSUME hi + 1 <= q PROVE FALSE
    BY <1>2
  <2>1. k * (hi + 1) <= k * q
    BY <1>2
  <2>2. k * (hi + 1) = k * hi + k
    OBVIOUS
  <2> QED
    BY <1>2, <2>1, <2>2
<1> QED
  BY <1>1, <1>3, <1>4

\* "%lld" prints stats[n] as it is, unless the mean of the round is 2^63
\* cycles or more.
THEOREM PrintExact ==
  ASSUME NEW k \in Nat \ {0}, NEW t \in Nat, NEW e \in Nat, e < U64,
         2 * (e \div k) < U64
  PROVE  lld(stat(k, t, e)) = e \div k
<1>1. stat(k, t, e) = e \div k /\ e \div k \in Int
  BY StatExact
<1> QED
  BY <1>1, U64Positive DEF lld

=============================================================================
