--------------------------- MODULE RingArithmetic ---------------------------
(***************************************************************************)
(* Facts about indices of a ring of q slots, as s->out_pos and s->out_last *)
(* of an RTMP session: stepping, distance, and the distance computed with  *)
(* unsigned arithmetic modulo w.                                           *)
(***************************************************************************)
EXTENDS Integers, TLAPS

\* Quotient and remainder.
LEMMA DivMod ==
  ASSUME NEW q \in Nat \ {0}, NEW a \in Int
  PROVE  /\ a % q \in 0 .. q - 1
         /\ a \div q \in Int
         /\ a = q * (a \div q) + (a % q)
  OBVIOUS

\* A remainder is known by any decomposition that has it.
LEMMA ModUnique ==
  ASSUME NEW q \in Nat \ {0}, NEW k \in Int, NEW r \in 0 .. q - 1
  PROVE  (k * q + r) % q = r
  OBVIOUS

\* An index that has not left the ring stays;
LEMMA ModSmall ==
  ASSUME NEW q \in Nat \ {0}, NEW a \in 0 .. q - 1
  PROVE  a % q = a
  OBVIOUS

\* one that passed its end comes back at the start;
LEMMA ModUp ==
  ASSUME NEW q \in Nat \ {0}, NEW a \in Int, a >= q, a < 2 * q
  PROVE  a % q = a - q
  OBVIOUS

\* and one before its start at the end.
LEMMA ModDown ==
  ASSUME NEW q \in Nat \ {0}, NEW a \in Int, a < 0, a >= 0 - q
  PROVE  a % q = a + q
  <1>1. /\ a + q \in 0 .. q - 1
        /\ a = (0 - 1) * q + (a + q)
    OBVIOUS
  <1>2. ((0 - 1) * q + (a + q)) % q = a + q
    BY <1>1, ModUnique
  <1> QED BY <1>1, <1>2

\* The distance from a to b round the ring.
LEMMA Distance ==
  ASSUME NEW q \in Nat \ {0}, NEW a \in 0 .. q - 1, NEW b \in 0 .. q - 1
  PROVE  (b - a) % q = IF b >= a THEN b - a ELSE b - a + q
  <1>1. CASE b >= a
    BY <1>1, ModSmall
  <1>2. CASE b < a
    BY <1>2, ModDown
  <1> QED BY <1>1, <1>2

\* Unsigned subtraction modulo w gives that distance when q divides w.
LEMMA UnsignedDistance ==
  \A q \in Nat \ {0}, w \in Nat : w >= q /\ w % q = 0 =>
      \A a, b \in 0 .. q - 1 : ((b - a) % w) % q = (b - a) % q
  <1> SUFFICES ASSUME NEW q \in Nat \ {0}, NEW w \in Nat, w >= q, w % q = 0,
                      NEW a \in 0 .. q - 1, NEW b \in 0 .. q - 1
               PROVE  ((b - a) % w) % q = (b - a) % q
    OBVIOUS
  <1>1. CASE b >= a
    <2>1. b - a \in 0 .. w - 1
      BY <1>1
    <2> QED BY <2>1, ModSmall
  <1>2. CASE b < a
    <2> DEFINE d == b - a + q
               k == (w \div q) - 1
    <2>1. d \in 0 .. q - 1
      BY <1>2
    <2>2. (b - a) % w = b - a + w
      BY <1>2, ModDown
    <2>3. k \in Int /\ w = q * (w \div q)
      BY DivMod
    <2>4. b - a + w = k * q + d
      BY <2>3
    <2>5. (k * q + d) % q = d
      BY <2>1, <2>3, ModUnique
    <2>6. (b - a) % q = d
      BY <1>2, Distance
    <2> QED BY <2>2, <2>4, <2>5, <2>6
  <1> QED BY <1>1, <1>2

\* Stepping b forward lengthens the distance by one.
LEMMA OneMore ==
  ASSUME NEW q \in Nat \ {0}, NEW a \in 0 .. q - 1, NEW b \in 0 .. q - 1,
         ((b - a) % q) + 1 < q
  PROVE  (((b + 1) % q) - a) % q = ((b - a) % q) + 1
  <1>0. (b - a) % q = IF b >= a THEN b - a ELSE b - a + q
    BY Distance
  <1>1. CASE b + 1 = q
    <2>1. (b + 1) % q = 0
      BY <1>1, ModUp
    <2>2. 0 \in 0 .. q - 1
      OBVIOUS
    <2>3. (0 - a) % q = IF 0 >= a THEN 0 - a ELSE 0 - a + q
      BY <2>2, Distance, Zenon
    <2> QED BY <1>0, <1>1, <2>1, <2>3
  <1>2. CASE b + 1 < q
    <2>1. (b + 1) % q = b + 1
      BY <1>2, ModSmall
    <2>2. ((b + 1) - a) % q = IF b + 1 >= a THEN (b + 1) - a ELSE (b + 1) - a + q
      BY <1>2, Distance
    <2> QED BY <1>0, <1>2, <2>1, <2>2
  <1> QED BY <1>1, <1>2

\* Stepping a forward by g shortens it by g.
LEMMA Fewer ==
  ASSUME NEW q \in Nat \ {0}, NEW a \in 0 .. q - 1, NEW b \in 0 .. q - 1,
         NEW g \in Nat, g <= (b - a) % q
  PROVE  (b - ((a + g) % q)) % q = ((b - a) % q) - g
  <1>0. (b - a) % q = IF b >= a THEN b - a ELSE b - a + q
    BY Distance
  <1>1. CASE a + g >= q
    <2>0. a + g < 2 * q
      BY <1>0
    <2> DEFINE i == a + g
    <2>1. i % q = i - q
      <3>1. i \in Int /\ i >= q /\ i < 2 * q
        BY <2>0, <1>1
      <3> HIDE DEF i
      <3> QED BY <3>1, ModUp
    <2>2. a + g - q \in 0 .. q - 1
      BY <1>0, <1>1
    <2>3. (b - (a + g - q)) % q =
             IF b >= a + g - q THEN b - (a + g - q) ELSE b - (a + g - q) + q
      BY <2>2, Distance
    <2> QED BY <1>0, <1>1, <2>1, <2>3
  <1>2. CASE a + g < q
    <2>1. (a + g) % q = a + g
      BY <1>2, ModSmall
    <2>2. a + g \in 0 .. q - 1
      BY <1>2
    <2>3. (b - (a + g)) % q = IF b >= a + g THEN b - (a + g) ELSE b - (a + g) + q
      BY <2>2, Distance
    <2> QED BY <1>0, <1>2, <2>1, <2>3
  <1> QED BY <1>1, <1>2

\* k more units, when u of n * p are done, complete at most n items of p.
LEMMA DoneBound ==
  ASSUME NEW p \in Nat \ {0}, NEW n \in Nat, NEW u \in 0 .. p - 1,
         NEW k \in 0 .. n * p - u
  PROVE  (u + k) \div p \in 0 .. n
  <1> DEFINE x == (u + k) \div p
  <1>1. x \in Int /\ u + k >= p * x /\ u + k < p * x + p /\ u + k >= 0
    BY DivMod
  <1>2. u + k <= n * p
    OBVIOUS
  <1>3. x >= 0
    BY <1>1
  <1>4. x <= n
    BY <1>1, <1>2
  <1> QED BY <1>1, <1>3, <1>4

=============================================================================
