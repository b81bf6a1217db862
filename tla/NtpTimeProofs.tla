--------------------------- MODULE NtpTimeProofs ---------------------------
(***************************************************************************)
(* Theorems about NtpTime, for every clock, delay and unit.                *)
(***************************************************************************)
EXTENDS NtpTime, TLAPS

LEMMA Division ==
  ASSUME NEW a \in Int, NEW b \in Nat \ {0}
  PROVE  /\ a \div b \in Int /\ a % b \in 0..(b - 1)
         /\ a = b * (a \div b) + (a % b)
OBVIOUS

LEMMA Monotone ==
  ASSUME NEW a \in Int, NEW b \in Int, NEW c \in Nat \ {0}, a * c < b * c
  PROVE  a < b
<1>1. SUFFICES ASSUME a >= b PROVE FALSE
  OBVIOUS
<1>2. (a - b) * c >= 0
  BY <1>1
<1>3. QED  BY <1>2

(* A fraction of a second loses less than a nanosecond in a packet. *)
LEMMA FractionKept ==
  ASSUME Units, NEW n \in 0..(Nanos - 1)
  PROVE  (((n * Fracs) \div Nanos) * Nanos) \div Fracs \in {n - 1, n}
<1> DEFINE f == (n * Fracs) \div Nanos
           g == (f * Nanos) \div Fracs
           r == (n * Fracs) % Nanos
           q == (f * Nanos) % Fracs
<1>1. Nanos \in Nat \ {0} /\ Fracs \in Nat \ {0} /\ Fracs >= Nanos
  BY DEF Units
<1>2. n * Fracs \in Int
  BY <1>1
<1>3. f \in Int /\ r \in 0..(Nanos - 1) /\ n * Fracs = Nanos * f + r
  BY <1>1, <1>2, Division
<1>4. f * Nanos \in Int
  BY <1>1, <1>3
<1>5. g \in Int /\ q \in 0..(Fracs - 1) /\ f * Nanos = Fracs * g + q
  BY <1>1, <1>4, Division
<1> HIDE DEF f, g, r, q
<1>6. n * Fracs = Fracs * g + q + r
  BY <1>1, <1>3, <1>5
<1>7. g * Fracs < (n + 1) * Fracs
  BY <1>1, <1>3, <1>5, <1>6
<1>8. (n - 2) * Fracs < g * Fracs
  BY <1>1, <1>3, <1>5, <1>6
<1>9. g < n + 1 /\ n - 2 < g
  BY <1>1, <1>5, <1>7, <1>8, Monotone
<1>10. g \in {n - 1, n}
  BY <1>5, <1>9
<1>11. QED  BY <1>10 DEF f, g

(* In era 0 a time comes out of a packet as it went in, or one nanosecond  *)
(* short; a time of era 1 comes out one era early.                         *)
LEMMA WireTime ==
  ASSUME Units, NEW t \in Int, NEW n \in {0, 1}, InEra(t, n)
  PROVE  Wire(t) \in {t - n * Era * Nanos - 1, t - n * Era * Nanos}
<1> DEFINE s == t \div Nanos
           m == t % Nanos
           x == s + EpochOffset
           g == (((m * Fracs) \div Nanos) * Nanos) \div Fracs
<1>1. Nanos \in Nat \ {0} /\ Era \in Nat \ {0} /\ EpochOffset \in Int
  BY DEF Units
<1>2. s \in Int /\ m \in 0..(Nanos - 1) /\ t = Nanos * s + m
  BY <1>1, Division
<1>3. g \in {m - 1, m}
  BY <1>2, FractionKept
<1>4. x \in (n * Era)..((n + 1) * Era - 1)
  BY DEF InEra
<1>5. Wire(t) = ((x % Era) - EpochOffset) * Nanos + g
  BY DEF Wire, readNTPTime, writeNTPTime
<1> HIDE DEF s, m, g
<1>6. x % Era = x - n * Era
  <2>1. x \in Int
    BY <1>1, <1>2
  <2>2. x \div Era \in Int /\ x % Era \in 0..(Era - 1) /\ x = Era * (x \div Era) + (x % Era)
    BY <1>1, <2>1, Division
  <2> HIDE DEF x
  <2>3. (x \div Era) * Era < (n + 1) * Era /\ (n - 1) * Era < (x \div Era) * Era
    BY <1>1, <1>4, <2>1, <2>2
  <2>4. x \div Era < n + 1 /\ n - 1 < x \div Era
    <3>1. \A a, b \in Int : a * Era < b * Era => a < b
      BY <1>1, Monotone
    <3>2. x \div Era \in Int /\ n + 1 \in Int /\ n - 1 \in Int
      BY <2>2
    <3>3. QED  BY <2>3, <3>1, <3>2
  <2>5. x \div Era = n
    BY <2>2, <2>4
  <2>6. QED  BY <1>1, <2>1, <2>2, <2>5
<1>7. Wire(t) = (s - n * Era) * Nanos + g
  BY <1>1, <1>2, <1>5, <1>6
<1>8. (s - n * Era) * Nanos = t - m - n * Era * Nanos
  BY <1>1, <1>2
<1>9. QED  BY <1>1, <1>2, <1>3, <1>7, <1>8

(* In this era the runner's result for a good server is a good measurement *)
(* (NTPRunner.Run, writeNTPTime, readNTPTime).                             *)
THEOREM OffsetAccurate ==
  ASSUME Units, NEW t1 \in Int, NEW theta \in Int,
         NEW out \in Nat, NEW work \in Nat, NEW back \in Nat,
         InEra(t1, 0), InEra(t1 + out + theta, 0), InEra(t1 + out + theta + work, 0)
  PROVE  GoodMeasurement(t1, theta, out, work, back)
<1> DEFINE t2 == t1 + out + theta
           t3 == t1 + out + theta + work
<1>1. \A t \in Int : InEra(t, 0) => Wire(t) \in {t - 1, t}
  BY WireTime DEF Units
<1>2. Wire(t1) \in {t1 - 1, t1} /\ Wire(t2) \in {t2 - 1, t2} /\ Wire(t3) \in {t3 - 1, t3}
  BY <1>1
<1>3. ReplyError(4, 1, Wire(t1), t1) = ""
  BY <1>2 DEF ReplyError, Units
<1>4. \A w2 \in {t2 - 1, t2}, w3 \in {t3 - 1, t3} :
        /\ ((t1 + out + work + back) - t1) - (w3 - w2) \in (out + back - 1)..(out + back + 1)
        /\ ((w2 - t1) + (w3 - (t1 + out + work + back))) - 2 * theta
             \in (-(out + back) - 2)..(out + back)
  OBVIOUS
<1> DEFINE m == Measured(t1, theta, out, work, back)
<1>5. /\ m.error_type = ReplyError(4, 1, Wire(t1), t1)
      /\ m.delay = ((t1 + out + work + back) - t1) - (Wire(t3) - Wire(t2))
      /\ m.twiceOffset = (Wire(t2) - t1) + (Wire(t3) - (t1 + out + work + back))
  BY DEF Measured, Delay, TwiceOffset
<1> HIDE DEF m, t2, t3
<1>6. /\ ((t1 + out + work + back) - t1) - (Wire(t3) - Wire(t2)) \in (out + back - 1)..(out + back + 1)
      /\ ((Wire(t2) - t1) + (Wire(t3) - (t1 + out + work + back))) - 2 * theta
           \in (-(out + back) - 2)..(out + back)
  BY <1>2, <1>4, Zenon
<1>7. m.error_type = ""
  BY <1>3, <1>5
<1>8. /\ m.delay \in (out + back - 1)..(out + back + 1)
      /\ m.twiceOffset - 2 * theta \in (-(out + back) - 2)..(out + back)
  BY <1>5, <1>6, Zenon
<1>9. QED  BY <1>7, <1>8, Zenon DEF GoodMeasurement, m

(* In the next era the runner reports every good server as a mismatch      *)
(* (NTPRunner.Run, readNTPTime).                                           *)
THEOREM EraEnds ==
  ASSUME Units, NEW t1 \in Int, InEra(t1, 1),
         NEW theta, NEW out, NEW work, NEW back
  PROVE  RolledOver(t1, theta, out, work, back)
<1>1. Wire(t1) \in {t1 - Era * Nanos - 1, t1 - Era * Nanos}
  BY WireTime DEF Units
<1>2. Era * Nanos > Nanos /\ Era * Nanos \in Int /\ Nanos \in Nat
  BY DEF Units
<1>3. Wire(t1) - t1 \notin -Nanos..Nanos
  BY <1>1, <1>2
<1>4. QED  BY <1>3 DEF RolledOver, Measured, ReplyError
=============================================================================
